---- MODULE Spec2Model ----
(***************************************************************************)
(* ATLAS adaptive probing engine: the Probe -> Cortex -> Router loop of    *)
(* src/src/graph.js with the HTTP tools of src/src/tools.js, the run state *)
(* of src/src/state.js and the reasoning node of src/src/cortex.js.        *)
(*                                                                         *)
(* A path is a record of the lexical parts the code looks at:              *)
(*   form   "rel" (/a/b), "abs" (scheme://host/a), "protorel" (//host/a),  *)
(*          "null" (null / undefined)                                      *)
(*   scheme, host   of an absolute or protocol-relative reference          *)
(*   segs   the path segments, ext the file extension of the last segment  *)
(* Tenths are used for confidences (0.3 is 3).                             *)
(***************************************************************************)
EXTENDS Integers, Sequences, FiniteSets, TLC

VARIABLES state, pc, inflight, successes, apiKey, oracle, requestsSent, lastDispatch,
          llmCalls, trace, lastForced, returned

vars == <<state, pc, inflight, successes, apiKey, oracle, requestsSent, lastDispatch,
          llmCalls, trace, lastForced, returned>>

(***************************************************************************)
(* Configuration (config.js) and constants (constants.js)                  *)
(***************************************************************************)
MAX_REQ_PER_RUN == 4

MAX_HOPS == 7

MAX_HITS_PER_PATH == 2

DIVERSITY_INTERVAL == 5

MAX_ACTIONS_PER_DECISION == 5

TARGET_URL == [scheme |-> "http", host |-> "juice-shop:3000"]

ALLOWED_TOOLS ==
  {"http_get", "http_post", "inspect_headers", "provoke_error",
   "measure_timing", "captcha_fetch"}

REQUIRED_DIVERSITY_TOOLS == <<"inspect_headers", "provoke_error">>

STATIC_EXTENSIONS ==
  {".css", ".js", ".ico", ".png", ".jpg", ".jpeg", ".svg", ".gif", ".webp",
   ".woff", ".woff2", ".ttf", ".map", ".eot"}

API_PATH_PATTERNS == {"api", "rest", "v1", "v2", "graphql"}

AUTH_PATH_PATTERNS ==
  {"login", "auth", "admin", "signin", "account", "user", "profile",
   "register", "password", "token", "session"}

SENSITIVE_PATH_PATTERNS ==
  {"swagger", "openapi", "config", "debug", "backup", "ftp", ".git", ".env",
   "docs"}

Null == "null"

(***************************************************************************)
(* Paths                                                                   *)
(***************************************************************************)
NullPath == [form |-> "null", scheme |-> "", host |-> "", segs |-> <<>>, ext |-> ""]

RelPath(segs, ext) ==
  [form |-> "rel", scheme |-> "", host |-> "", segs |-> segs, ext |-> ext]

AbsPath(scheme, host, segs, ext) ==
  [form |-> "abs", scheme |-> scheme, host |-> host, segs |-> segs, ext |-> ext]

ProtoRelPath(host, segs, ext) ==
  [form |-> "protorel", scheme |-> "", host |-> host, segs |-> segs, ext |-> ext]

Root == RelPath(<<>>, "")

CaptchaDefault == RelPath(<<"rest", "captcha">>, "")

ApiA == RelPath(<<"api", "a">>, "")

About == RelPath(<<"about">>, "")

StylesCss == RelPath(<<"styles">>, ".css")

OtherAbs == AbsPath("http", "other", <<"x">>, "")

OtherProtoRel == ProtoRelPath("other", <<"x">>, "")

SameAbs == AbsPath("http", "juice-shop:3000", <<"about">>, "")

\* the link lists a response body may carry (extractPathsFromContent's result)
Bodies == {<<>>, <<StylesCss, OtherProtoRel, SameAbs, ApiA>>}

AllPaths ==
  {Root, CaptchaDefault, ApiA, About, StylesCss, OtherAbs, OtherProtoRel, SameAbs}

isStaticPath(path) ==
  IF path.form = "null" THEN FALSE ELSE path.ext \in STATIC_EXTENSIONS

isApiPath(path) ==
  /\ path.form = "rel"
  /\ Len(path.segs) >= 1
  /\ path.segs[1] \in API_PATH_PATTERNS

isAuthPath(path) ==
  /\ path.form # "null"
  /\ \E i \in 1..Len(path.segs) : path.segs[i] \in AUTH_PATH_PATTERNS

isSensitivePath(path) ==
  /\ path.form # "null"
  /\ \E i \in 1..Len(path.segs) : path.segs[i] \in SENSITIVE_PATH_PATTERNS

isApiOrAuthPath(path) ==
  IF path.form = "null" THEN FALSE
  ELSE isApiPath(path) \/ isAuthPath(path) \/ isSensitivePath(path)

\* scorePath with the bonus of an auth path at 2
scorePathAuthBonusTwo(path, st) ==
  IF path.form = "null"
  THEN [path |-> path, score |-> -10, hits |-> 0, lastStatus |-> 0, lastTool |-> Null]
  ELSE LET hits == st.pathHits[path]
           stat == st.pathStats[path]
           maxHitsPerPath == IF "maxHitsPerPath" \in DOMAIN st THEN st.maxHitsPerPath ELSE 2
           unvisited == \A i \in 1..Len(st.visitedPaths) : st.visitedPaths[i] # path
           s1 == IF unvisited THEN 2 ELSE 0
           s2 == IF hits >= maxHitsPerPath THEN s1 - 3 ELSE s1 - hits
           s3 == IF isStaticPath(path) THEN s2 - 2 ELSE s2
           s4 == IF isApiPath(path) THEN s3 + 3 ELSE s3
           s5 == IF isAuthPath(path) THEN s4 + 2 ELSE s4
           s6 == IF isSensitivePath(path) THEN s5 + 2 ELSE s5
           s7 == IF stat.lastStatus >= 500 THEN s6 + 2
                 ELSE IF stat.lastStatus >= 400 THEN s6 + 1
                 ELSE s6
       IN [path |-> path, score |-> s7, hits |-> hits,
           lastStatus |-> stat.lastStatus, lastTool |-> stat.lastTool]

\* the score is built up statement by statement (s1 .. s7); a lastStatus of 0
\* is an absent one, and state.maxHitsPerPath is read when the state has it
scorePath(path, st) ==
  IF path.form = "null"
  THEN [path |-> path, score |-> -10, hits |-> 0, lastStatus |-> 0, lastTool |-> Null]
  ELSE LET hits == st.pathHits[path]
           stat == st.pathStats[path]
           maxHitsPerPath == IF "maxHitsPerPath" \in DOMAIN st THEN st.maxHitsPerPath ELSE 2
           unvisited == \A i \in 1..Len(st.visitedPaths) : st.visitedPaths[i] # path
           s1 == IF unvisited THEN 2 ELSE 0
           s2 == IF hits >= maxHitsPerPath THEN s1 - 3 ELSE s1 - hits
           s3 == IF isStaticPath(path) THEN s2 - 2 ELSE s2
           s4 == IF isApiPath(path) THEN s3 + 3 ELSE s3
           s5 == IF isAuthPath(path) THEN s4 + 3 ELSE s4
           s6 == IF isSensitivePath(path) THEN s5 + 2 ELSE s5
           s7 == IF stat.lastStatus >= 500 THEN s6 + 2
                 ELSE IF stat.lastStatus >= 400 THEN s6 + 1
                 ELSE s6
       IN [path |-> path, score |-> s7, hits |-> hits,
           lastStatus |-> stat.lastStatus, lastTool |-> stat.lastTool]

\* new URL(path, base): an absolute reference keeps its own scheme and host, a
\* protocol-relative one takes the scheme of the base, a relative one takes both
ResolveUrl(path, base) ==
  CASE path.form = "abs" ->
         [scheme |-> path.scheme, host |-> path.host, segs |-> path.segs, ext |-> path.ext]
    [] path.form = "protorel" ->
         [scheme |-> base.scheme, host |-> path.host, segs |-> path.segs, ext |-> path.ext]
    [] OTHER ->
         [scheme |-> base.scheme, host |-> base.host, segs |-> path.segs, ext |-> path.ext]

buildUrl(path) == ResolveUrl(path, TARGET_URL)

Origin(url) == [scheme |-> url.scheme, host |-> url.host]

Pathname(url) == RelPath(url.segs, url.ext)

(***************************************************************************)
(* Run state (state.js)                                                    *)
(***************************************************************************)
MetricNames ==
  {"httpGet", "httpPost", "inspectHeaders", "provokeError", "measureTiming",
   "captchaFetch"}

NoAction == [tool |-> Null, path |-> NullPath]

NoStat == [hits |-> 0, lastTool |-> Null, lastStatus |-> 0, lastObservationId |-> 0]

\* state.captcha before any captcha_fetch (null in the code)
NoCaptcha == [fetched |-> FALSE, captchaId |-> Null, answer |-> Null]

createInitialState ==
  [observations |-> <<>>,
   reasoningLog |-> <<>>,
   decision |-> "probe",
   metrics |-> [requests |-> 0,
                perTool |-> [t \in MetricNames |-> 0],
                errors |-> <<>>],
   toolUsage |-> [t \in ALLOWED_TOOLS |-> 0],
   llmMeta |-> [attempts |-> 0, usedFallback |-> FALSE, error |-> Null],
   visitedPaths |-> <<>>,
   hops |-> 0,
   stopReason |-> Null,
   decisions |-> <<>>,
   captcha |-> NoCaptcha,
   candidates |-> <<>>,
   lastAction |-> NoAction,
   pathHits |-> [p \in AllPaths |-> 0],
   pathStats |-> [p \in AllPaths |-> NoStat],
   skippedHops |-> 0]

InSeq(x, s) == \E i \in 1..Len(s) : s[i] = x

\* addObservation that puts the observation at the front of the list
addObservationPrepends(st, observation) ==
  [st EXCEPT !.observations = <<observation>> \o @]

addObservation(st, observation) ==
  [st EXCEPT !.observations = Append(@, observation)]

updatePathStats(st, path, info) ==
  IF path.form = "null" THEN st
  ELSE [st EXCEPT !.pathStats[path] =
          [hits |-> @.hits + 1,
           lastTool |-> info.tool,
           lastStatus |-> info.status,
           lastObservationId |-> info.observationId]]

(***************************************************************************)
(* HTTP tools (tools.js)                                                   *)
(***************************************************************************)
\* addCandidate that does not look the path up in the queue
addCandidateNoQueueLookup(st, path) ==
  IF path.form = "null" THEN st
  ELSE IF InSeq(path, st.visitedPaths) THEN st
  ELSE [st EXCEPT !.candidates = Append(@, path)]

addCandidate(st, path) ==
  IF path.form = "null" THEN st
  ELSE IF InSeq(path, st.visitedPaths) THEN st
  ELSE IF InSeq(path, st.candidates) THEN st
  ELSE [st EXCEPT !.candidates = Append(@, path)]

\* the candidate path one raw link resolves to; NullPath when it is dropped
CandidatePathOf(raw, baseUrl) ==
  IF raw.form = "rel" THEN raw
  ELSE LET resolved == ResolveUrl(raw, Origin(baseUrl))
       IN IF Origin(resolved) # Origin(buildUrl(Root)) THEN NullPath
          ELSE Pathname(resolved)

RECURSIVE addCandidatesFromContent(_, _, _)
addCandidatesFromContent(st, baseUrl, found) ==
  IF found = <<>> THEN st
  ELSE LET candidatePath == CandidatePathOf(Head(found), baseUrl)
           st1 == IF candidatePath.form # "null" /\ ~isStaticPath(candidatePath)
                  THEN addCandidate(st, candidatePath)
                  ELSE st
       IN addCandidatesFromContent(st1, baseUrl, Tail(found))

\* checkBudget with the gate left out
checkBudgetNeverThrows(st) == TRUE

\* TRUE when the budget gate lets the request through, FALSE when it throws
checkBudget(st) == ~(st.metrics.requests >= MAX_REQ_PER_RUN)

\* incrementMetrics that counts the request but not the tool
incrementMetricsRequestsOnly(st, tool, count) ==
  [st EXCEPT !.metrics.requests = @ + count]

incrementMetrics(st, tool, count) ==
  [st EXCEPT !.metrics.requests = @ + count,
             !.metrics.perTool[tool] = @ + count]

NoUrl == [scheme |-> "", host |-> "", segs |-> <<>>, ext |-> ""]

recordError(st, tool, url) ==
  [st EXCEPT !.metrics.errors =
     Append(@, [tool |-> tool, url |-> url, path |-> NullPath, by |-> "recordError"])]

\* the perTool key and the number of requests counted by each tool function
MetricName(toolName) ==
  CASE toolName = "http_get" -> "httpGet"
    [] toolName = "http_post" -> "httpPost"
    [] toolName = "inspect_headers" -> "inspectHeaders"
    [] toolName = "provoke_error" -> "provokeError"
    [] toolName = "measure_timing" -> "measureTiming"
    [] toolName = "captcha_fetch" -> "captchaFetch"

\* every tool function counting one request
RequestCountOne(toolName) == 1

RequestCount(toolName) == IF toolName = "measure_timing" THEN 2 ELSE 1

HttpMethod(toolName) ==
  IF toolName \in {"http_get", "inspect_headers", "captcha_fetch"} THEN "GET"
  ELSE "POST"

(***************************************************************************)
(* Path bookkeeping and selection (graph.js)                               *)
(***************************************************************************)
\* markVisited without the includes test
markVisitedNoLookup(st, path) ==
  IF path.form = "null" THEN st
  ELSE [st EXCEPT !.visitedPaths = Append(@, path)]

markVisited(st, path) ==
  IF path.form = "null" THEN st
  ELSE IF ~InSeq(path, st.visitedPaths)
       THEN [st EXCEPT !.visitedPaths = Append(@, path)]
       ELSE st

recordHit(st, path) ==
  IF path.form = "null" THEN st
  ELSE [st EXCEPT !.pathHits[path] = @ + 1]

\* canHit with the cap compared by <=
canHitOffByOne(st, path) ==
  IF path.form = "null" THEN FALSE
  ELSE st.pathHits[path] <= MAX_HITS_PER_PATH

canHit(st, path) ==
  IF path.form = "null" THEN FALSE
  ELSE st.pathHits[path] < MAX_HITS_PER_PATH

\* canHit in a process started with the environment variable MAX_HITS_PER_PATH
\* set to maxHits
canHitAt(maxHits, st, path) ==
  IF path.form = "null" THEN FALSE
  ELSE st.pathHits[path] < maxHits

\* the queue test with the API/auth/sensitive condition of the first pass
ConsumableApiOnly(st, path) ==
  LET staticAndSeen == isStaticPath(path) /\ st.pathHits[path] >= 1
  IN /\ ~InSeq(path, st.visitedPaths) /\ canHit(st, path) /\ ~staticAndSeen
     /\ isApiOrAuthPath(path)

\* the test both passes of consumeCandidate apply to a queue entry
Consumable(st, path) ==
  LET staticAndSeen == isStaticPath(path) /\ st.pathHits[path] >= 1
  IN ~InSeq(path, st.visitedPaths) /\ canHit(st, path) /\ ~staticAndSeen

RemoveAt(s, i) == SubSeq(s, 1, i - 1) \o SubSeq(s, i + 1, Len(s))

\* second pass: shift entries off the queue until one is consumable
RECURSIVE ShiftCandidate(_)
ShiftCandidate(st) ==
  IF st.candidates = <<>> THEN [path |-> NullPath, st |-> st]
  ELSE LET path == Head(st.candidates)
           st1 == [st EXCEPT !.candidates = Tail(@)]
       IN IF Consumable(st, path) THEN [path |-> path, st |-> st1]
          ELSE ShiftCandidate(st1)

\* consumeCandidate without the first pass over API/auth/sensitive entries
consumeCandidateFifoOnly(st, preferApi) ==
  ShiftCandidate(st)

consumeCandidate(st, preferApi) ==
  LET hits == {i \in 1..Len(st.candidates) :
                 Consumable(st, st.candidates[i]) /\ isApiOrAuthPath(st.candidates[i])}
  IN IF preferApi /\ hits # {}
     THEN LET i == CHOOSE j \in hits : \A k \in hits : j <= k
          IN [path |-> st.candidates[i],
              st |-> [st EXCEPT !.candidates = RemoveAt(@, i)]]
     ELSE ShiftCandidate(st)

\* choosePath without the sameAsLast test
choosePathAllowsRepeat(st, toolName, desiredPath) ==
  LET staticAndSeen == isStaticPath(desiredPath) /\ st.pathHits[desiredPath] >= 1
  IN IF /\ desiredPath.form # "null"
        /\ canHit(st, desiredPath)
        /\ ~staticAndSeen
        /\ ~isStaticPath(desiredPath)
     THEN [path |-> desiredPath, st |-> st]
     ELSE LET apiCandidate == consumeCandidate(st, TRUE)
          IN IF apiCandidate.path.form # "null" THEN apiCandidate
             ELSE consumeCandidate(apiCandidate.st, FALSE)

choosePath(st, toolName, desiredPath) ==
  LET sameAsLast == st.lastAction.tool = toolName /\ st.lastAction.path = desiredPath
      staticAndSeen == isStaticPath(desiredPath) /\ st.pathHits[desiredPath] >= 1
  IN IF /\ desiredPath.form # "null"
        /\ ~sameAsLast
        /\ canHit(st, desiredPath)
        /\ ~staticAndSeen
        /\ ~isStaticPath(desiredPath)
     THEN [path |-> desiredPath, st |-> st]
     ELSE LET apiCandidate == consumeCandidate(st, TRUE)
          IN IF apiCandidate.path.form # "null" THEN apiCandidate
             ELSE consumeCandidate(apiCandidate.st, FALSE)

(***************************************************************************)
(* dispatchTool (graph.js), split at its suspension point: DispatchStart   *)
(* is the code up to the first request handed to the HTTP client,          *)
(* DispatchReturn the code that runs when a request settles.               *)
(***************************************************************************)
\* a JSON body is a function from its field names to their values; {} is the
\* empty one, "" an empty string (falsy) and Null a null
NoBody == <<>>

Truthy(v) == v \notin {"", Null}

\* path.includes("Feedbacks"): path segments are atoms, so a segment is the
\* substring or does not contain it
IncludesFeedbacks(path) ==
  path.form # "null" /\ \E i \in 1..Len(path.segs) : path.segs[i] = "Feedbacks"

WithField(body, field, value) ==
  [f \in DOMAIN body \cup {field} |-> IF f = field THEN value ELSE body[f]]

\* the body the http_post case hands to httpPost
mergedBody(st, path, args) ==
  LET b0 == IF "body" \in DOMAIN args THEN args.body ELSE NoBody
  IN IF IncludesFeedbacks(path) /\ Truthy(st.captcha.captchaId)
     THEN LET b1 == IF ~("captchaId" \in DOMAIN b0 /\ Truthy(b0["captchaId"]))
                    THEN WithField(b0, "captchaId", st.captcha.captchaId)
                    ELSE b0
          IN IF ~("captcha" \in DOMAIN b1 /\ Truthy(b1["captcha"]))
                /\ Truthy(st.captcha.answer)
             THEN WithField(b1, "captcha", st.captcha.answer)
             ELSE b1
     ELSE b0

\* state.captcha as captchaFetch stores it: data.captchaId ?? data.id ?? null
\* and data.answer ?? null, read off the markers of the response data
CaptchaOf(resp) ==
  [fetched |-> TRUE,
   captchaId |-> IF "captchaId" \in resp.data THEN "c1" ELSE Null,
   answer |-> IF "answer" \in resp.data THEN "a1" ELSE Null]

DefaultPath(toolName) == IF toolName = "captcha_fetch" THEN CaptchaDefault ELSE Root

\* the catch block of dispatchTool
DispatchCatch(st, toolName, args) ==
  [st EXCEPT !.metrics.errors =
     Append(@, [tool |-> toolName, url |-> NoUrl, path |-> args.path, by |-> "dispatchTool"])]

NoFlight == [tool |-> Null, args |-> [path |-> NullPath], path |-> NullPath,
             url |-> NoUrl, phase |-> "none", body |-> NoBody]

\* dispatchTool that records the action it skipped as the last action
DispatchStartSkipSetsLastAction(st, toolName, args) ==
  IF toolName \notin ALLOWED_TOOLS
  THEN [st |-> st, result |-> "skipped", flight |-> NoFlight]
  ELSE LET desired == IF args.path.form = "null" THEN DefaultPath(toolName) ELSE args.path
           chosen == choosePath(st, toolName, desired)
           path == chosen.path
       IN IF path.form = "null"
          THEN [st |-> [chosen.st EXCEPT !.lastAction = [tool |-> toolName, path |-> desired]],
                result |-> "skipped", flight |-> NoFlight]
          ELSE LET st1 == recordHit(markVisited(chosen.st, path), path)
               IN IF ~checkBudget(st1)
                  THEN [st |-> DispatchCatch(st1, toolName, args), result |-> "gated",
                        flight |-> [NoFlight EXCEPT !.tool = toolName, !.path = path]]
                  ELSE [st |-> incrementMetrics(st1, MetricName(toolName),
                                                RequestCount(toolName)),
                        result |-> "sent",
                        flight |-> [tool |-> toolName, args |-> args, path |-> path,
                                    url |-> buildUrl(path),
                                    body |-> IF toolName = "http_post"
                                             THEN mergedBody(st1, path, args)
                                             ELSE NoBody,
                                    phase |-> IF toolName = "measure_timing"
                                              THEN "control" ELSE "single"]]

DispatchStart(st, toolName, args) ==
  IF toolName \notin ALLOWED_TOOLS
  THEN [st |-> st, result |-> "skipped", flight |-> NoFlight]
  ELSE LET desired == IF args.path.form = "null" THEN DefaultPath(toolName) ELSE args.path
           chosen == choosePath(st, toolName, desired)
           path == chosen.path
       IN IF path.form = "null"
          THEN [st |-> chosen.st, result |-> "skipped", flight |-> NoFlight]
          ELSE LET st1 == recordHit(markVisited(chosen.st, path), path)
               IN IF ~checkBudget(st1)
                  THEN [st |-> DispatchCatch(st1, toolName, args), result |-> "gated",
                        flight |-> [NoFlight EXCEPT !.tool = toolName, !.path = path]]
                  ELSE [st |-> incrementMetrics(st1, MetricName(toolName),
                                                RequestCount(toolName)),
                        result |-> "sent",
                        flight |-> [tool |-> toolName, args |-> args, path |-> path,
                                    url |-> buildUrl(path),
                                    body |-> IF toolName = "http_post"
                                             THEN mergedBody(st1, path, args)
                                             ELSE NoBody,
                                    phase |-> IF toolName = "measure_timing"
                                              THEN "control" ELSE "single"]]

\* what the HTTP client hands back: a transport error, or a response (any status)
Statuses == {200}

\* response headers are the set of the header facts the findings extractor
\* looks at; the page without links carries none of them
HeadersOf(body) ==
  IF body = <<>> THEN {}
  ELSE {"access-control-allow-origin: *", "strict-transport-security", "server"}

\* body, headers: what the target answers; data: the markers of the body text the
\* findings extractor looks for
Responses ==
  {[kind |-> "error", status |-> 0, body |-> <<>>, headers |-> {}, data |-> {}]}
    \cup {[kind |-> "response", status |-> s, body |-> b, headers |-> HeadersOf(b),
            data |-> {}] : s \in Statuses, b \in Bodies}

\* the answers a request of a tool is checked with: http_get reads the body for
\* links, so its requests are also answered with the page that has links, and
\* so are those of http_post, which stands for the tools that do not read it
ResponsesFor(toolName) ==
  IF toolName \in {"http_get", "http_post"} THEN Responses
  ELSE {r \in Responses : r.body = <<>>}

toObservation(st, fl, resp) ==
  [id |-> Len(st.observations) + 1,
   tool |-> MetricName(fl.tool),
   url |-> fl.url,
   method |-> HttpMethod(fl.tool),
   status |-> resp.status,
   headers |-> resp.headers,
   bodySnippet |-> resp.data]

\* DispatchReturn with lastAction also set when the request failed
DispatchReturnMarksFailedAction(st, fl, resp) ==
  IF resp.kind = "error"
  THEN [st |-> [DispatchCatch(recordError(st, MetricName(fl.tool), fl.url), fl.tool, fl.args)
                  EXCEPT !.lastAction = [tool |-> fl.tool, path |-> fl.path]],
        result |-> "transport_error", flight |-> fl]
  ELSE IF fl.phase = "control"
  THEN [st |-> st, result |-> "pending", flight |-> [fl EXCEPT !.phase = "test"]]
  ELSE LET obs == toObservation(st, fl, resp)
           st1 == addObservation(st, obs)
           st2 == IF fl.tool = "http_get"
                  THEN addCandidatesFromContent(st1, fl.url, resp.body)
                  ELSE IF fl.tool = "captcha_fetch"
                  THEN [st1 EXCEPT !.captcha = CaptchaOf(resp)]
                  ELSE st1
           st3 == updatePathStats(st2, fl.path,
                    [status |-> obs.status, tool |-> fl.tool, observationId |-> obs.id])
       IN [st |-> [st3 EXCEPT !.lastAction = [tool |-> fl.tool, path |-> fl.path]],
           result |-> "ok", flight |-> fl]

\* result: "pending" (measure_timing goes on to its test request),
\*         "transport_error" (dispatchTool returns false), "ok" (returns true)
DispatchReturn(st, fl, resp) ==
  IF resp.kind = "error"
  THEN [st |-> DispatchCatch(recordError(st, MetricName(fl.tool), fl.url), fl.tool, fl.args),
        result |-> "transport_error", flight |-> fl]
  ELSE IF fl.phase = "control"
  THEN [st |-> st, result |-> "pending", flight |-> [fl EXCEPT !.phase = "test"]]
  ELSE LET obs == toObservation(st, fl, resp)
           st1 == addObservation(st, obs)
           st2 == IF fl.tool = "http_get"
                  THEN addCandidatesFromContent(st1, fl.url, resp.body)
                  ELSE IF fl.tool = "captcha_fetch"
                  THEN [st1 EXCEPT !.captcha = CaptchaOf(resp)]
                  ELSE st1
           st3 == updatePathStats(st2, fl.path,
                    [status |-> obs.status, tool |-> fl.tool, observationId |-> obs.id])
       IN [st |-> [st3 EXCEPT !.lastAction = [tool |-> fl.tool, path |-> fl.path]],
           result |-> "ok", flight |-> fl]

(***************************************************************************)
(* Diversity, Probe node, Cortex node, Router (graph.js, cortex.js)        *)
(***************************************************************************)
\* shouldForceTool without the test that hops is a multiple of the interval
shouldForceToolEveryHop(st) ==
  LET a == REQUIRED_DIVERSITY_TOOLS[1]
      b == REQUIRED_DIVERSITY_TOOLS[2]
      leastUsed == IF st.toolUsage[a] <= st.toolUsage[b] THEN a ELSE b
  IN IF st.hops < DIVERSITY_INTERVAL THEN Null
     ELSE IF st.toolUsage[a] = 0 THEN a
     ELSE IF st.toolUsage[b] = 0 THEN b
     ELSE IF st.toolUsage[leastUsed] * DIVERSITY_INTERVAL < st.hops
     THEN leastUsed
     ELSE Null

shouldForceTool(st) ==
  LET a == REQUIRED_DIVERSITY_TOOLS[1]
      b == REQUIRED_DIVERSITY_TOOLS[2]
      leastUsed == IF st.toolUsage[a] <= st.toolUsage[b] THEN a ELSE b
  IN IF st.hops < DIVERSITY_INTERVAL THEN Null
     ELSE IF st.toolUsage[a] = 0 THEN a
     ELSE IF st.toolUsage[b] = 0 THEN b
     ELSE IF st.hops % DIVERSITY_INTERVAL = 0
             /\ st.toolUsage[leastUsed] * DIVERSITY_INTERVAL < st.hops
     THEN leastUsed
     ELSE Null

trackToolUsage(st, toolName) ==
  IF toolName \in DOMAIN st.toolUsage
  THEN [st EXCEPT !.toolUsage[toolName] = @ + 1]
  ELSE st

\* probeNode that does not reset consecutiveSkips after a successful dispatch
probeNodeKeepsSkips(st, toolName, success) ==
  LET st1 == IF success
             THEN trackToolUsage(st, toolName)
             ELSE [st EXCEPT !.skippedHops = @ + 1, !.consecutiveSkips = @ + 1]
  IN [st1 EXCEPT !.hops = @ + 1]

\* probeNode that tracks the tool whether or not the dispatch succeeded
probeNodeTracksEveryDispatch(st, toolName, success) ==
  LET st0 == trackToolUsage(st, toolName)
      st1 == IF success
             THEN [st0 EXCEPT !.consecutiveSkips = 0]
             ELSE [st0 EXCEPT !.skippedHops = @ + 1, !.consecutiveSkips = @ + 1]
  IN [st1 EXCEPT !.hops = @ + 1]

\* probeNode after dispatchTool has returned success
probeNode(st, toolName, success) ==
  LET st1 == IF success
             THEN [trackToolUsage(st, toolName) EXCEPT !.consecutiveSkips = 0]
             ELSE [st EXCEPT !.skippedHops = @ + 1, !.consecutiveSkips = @ + 1]
  IN [st1 EXCEPT !.hops = @ + 1]

LatestObservationId(st) ==
  IF st.observations = <<>> THEN 0 ELSE st.observations[Len(st.observations)].id

\* stubDecision that asks for another probe
stubDecisionProbes(st) ==
  [decision |-> "probe", next_tool |-> Null, next_args |-> [path |-> NullPath],
   has_args |-> FALSE,
   log |-> [confidence_0_1 |-> 3, observation_ref |-> LatestObservationId(st),
            owasp_category |-> "A05:2021-Security Misconfiguration"],
   llmMeta |-> [attempts |-> 0, usedFallback |-> TRUE, error |-> Null]]

stubDecision(st) ==
  [decision |-> "report", next_tool |-> Null, next_args |-> [path |-> NullPath],
   has_args |-> FALSE,
   log |-> [confidence_0_1 |-> 3, observation_ref |-> LatestObservationId(st),
            owasp_category |-> "A05:2021-Security Misconfiguration"],
   llmMeta |-> [attempts |-> 0, usedFallback |-> TRUE, error |-> Null]]

\* The (next_tool, next_args.path) pairs the LLM of one run answers with. A run
\* is driven by one of four oracles; together they name every tool, an absent
\* tool, an absent path, and every form of path.
OracleDiscovery ==
  {[next_tool |-> Null, path |-> NullPath],
   [next_tool |-> "http_get", path |-> ApiA],
   [next_tool |-> "measure_timing", path |-> ApiA]}

OracleOffOrigin ==
  {[next_tool |-> "http_post", path |-> OtherProtoRel],
   [next_tool |-> "inspect_headers", path |-> OtherAbs],
   [next_tool |-> "http_get", path |-> StylesCss]}

OracleApi ==
  {[next_tool |-> "provoke_error", path |-> ApiA],
   [next_tool |-> "captcha_fetch", path |-> NullPath],
   [next_tool |-> "http_post", path |-> Root]}

OracleGetOnly ==
  {[next_tool |-> "http_get", path |-> Root],
   [next_tool |-> "http_get", path |-> ApiA]}

Oracles == {OracleDiscovery, OracleOffOrigin, OracleApi, OracleGetOnly}

\* observation_ref is any string or null: 0 is null, 1 the id of the first
\* observation of the run, 99 a string that is the id of no observation
ObservationRefs == {0, 1, 99}

\* the replies of the LLM that pass CortexResponseSchema; the reference is varied
\* on the replies that decide report
LLMReplies(actions) ==
  {[decision |-> "probe", next_tool |-> a.next_tool, path |-> a.path, observation_ref |-> 0] :
     a \in actions}
    \cup {[decision |-> "report", next_tool |-> Null, path |-> NullPath, observation_ref |-> ref] :
            ref \in ObservationRefs}

\* the retry loop of runCortex makes at most this many LLM invocations
attemptsThree == 2 + 1

attempts == 2

\* the outcome of one LLM invocation (requestDecision): a validated reply, or a
\* failure (provider error, JSON parse error, schema validation error)
LLMOutcomes(actions) ==
  {[ok |-> TRUE, parsed |-> r] : r \in LLMReplies(actions)}
    \cup {[ok |-> FALSE,
           parsed |-> [decision |-> "report", next_tool |-> Null, path |-> NullPath,
                       observation_ref |-> 0]]}

runCortex(st, key, llm) ==
  IF ~key THEN stubDecision(st)
  ELSE IF ~llm.ok
  THEN [decision |-> "report", next_tool |-> Null, next_args |-> [path |-> NullPath],
        has_args |-> FALSE,
        log |-> [confidence_0_1 |-> 2, observation_ref |-> LatestObservationId(st),
                 owasp_category |-> "A05:2021-Security Misconfiguration"],
        llmMeta |-> [attempts |-> 2, usedFallback |-> TRUE, error |-> "llm_error"]]
  ELSE [decision |-> llm.parsed.decision,
        next_tool |-> llm.parsed.next_tool,
        next_args |-> [path |-> llm.parsed.path],
        has_args |-> TRUE,
        log |-> [confidence_0_1 |-> 3,
                 observation_ref |-> IF llm.parsed.observation_ref # 0
                                     THEN llm.parsed.observation_ref
                                     ELSE LatestObservationId(st),
                 owasp_category |-> "A05:2021-Security Misconfiguration"],
        llmMeta |-> [attempts |-> 2, usedFallback |-> FALSE, error |-> Null]]

\* cortexNode that numbers the DecisionEntry from 0
cortexNodeHopFromZero(st, cortexRes) ==
  LET st1 == [st EXCEPT
                !.decision = cortexRes.decision,
                !.reasoningLog = Append(@, cortexRes.log),
                !.llmMeta = cortexRes.llmMeta,
                !.decisions = Append(@, [hop |-> st.hops - 1,
                                         decision |-> cortexRes.decision,
                                         next_tool |-> cortexRes.next_tool,
                                         path |-> cortexRes.next_args.path])]
      forcedTool == shouldForceTool(st1)
  IN IF forcedTool # Null
     THEN [st1 EXCEPT !.nextTool = forcedTool, !.nextArgs = [path |-> Root]]
     ELSE [st1 EXCEPT
             !.nextTool = IF cortexRes.next_tool = Null THEN "http_get"
                          ELSE cortexRes.next_tool,
             !.nextArgs = IF cortexRes.has_args THEN cortexRes.next_args
                          ELSE [path |-> Root]]

cortexNode(st, cortexRes) ==
  LET st1 == [st EXCEPT
                !.decision = cortexRes.decision,
                !.reasoningLog = Append(@, cortexRes.log),
                !.llmMeta = cortexRes.llmMeta,
                !.decisions = Append(@, [hop |-> st.hops,
                                         decision |-> cortexRes.decision,
                                         next_tool |-> cortexRes.next_tool,
                                         path |-> cortexRes.next_args.path])]
      forcedTool == shouldForceTool(st1)
  IN IF forcedTool # Null
     THEN [st1 EXCEPT !.nextTool = forcedTool, !.nextArgs = [path |-> Root]]
     ELSE [st1 EXCEPT
             !.nextTool = IF cortexRes.next_tool = Null THEN "http_get"
                          ELSE cortexRes.next_tool,
             !.nextArgs = IF cortexRes.has_args THEN cortexRes.next_args
                          ELSE [path |-> Root]]

\* decisionRouter with the hop cap compared by >
decisionRouterHopsOffByOne(st) ==
  IF st.hops > MAX_HOPS
  THEN [route |-> "report", st |-> [st EXCEPT !.stopReason = "max_hops"]]
  ELSE IF st.metrics.requests >= MAX_REQ_PER_RUN
  THEN [route |-> "report", st |-> [st EXCEPT !.stopReason = "budget_exhausted"]]
  ELSE IF st.consecutiveSkips >= 3
  THEN [route |-> "report", st |-> [st EXCEPT !.stopReason = "no_valid_paths"]]
  ELSE IF st.decision = "report"
  THEN [route |-> "report", st |-> [st EXCEPT !.stopReason = "decision_report"]]
  ELSE [route |-> "probe", st |-> st]

\* decisionRouter with the decision of Cortex tested before the budget
decisionRouterDecisionFirst(st) ==
  IF st.hops >= MAX_HOPS
  THEN [route |-> "report", st |-> [st EXCEPT !.stopReason = "max_hops"]]
  ELSE IF st.decision = "report"
  THEN [route |-> "report", st |-> [st EXCEPT !.stopReason = "decision_report"]]
  ELSE IF st.metrics.requests >= MAX_REQ_PER_RUN
  THEN [route |-> "report", st |-> [st EXCEPT !.stopReason = "budget_exhausted"]]
  ELSE IF st.consecutiveSkips >= 3
  THEN [route |-> "report", st |-> [st EXCEPT !.stopReason = "no_valid_paths"]]
  ELSE [route |-> "probe", st |-> st]

\* decisionRouter that stops on consecutive skips without setting stopReason
decisionRouterSilentSkipStop(st) ==
  IF st.hops >= MAX_HOPS
  THEN [route |-> "report", st |-> [st EXCEPT !.stopReason = "max_hops"]]
  ELSE IF st.metrics.requests >= MAX_REQ_PER_RUN
  THEN [route |-> "report", st |-> [st EXCEPT !.stopReason = "budget_exhausted"]]
  ELSE IF st.consecutiveSkips >= 3
  THEN [route |-> "report", st |-> st]
  ELSE IF st.decision = "report"
  THEN [route |-> "report", st |-> [st EXCEPT !.stopReason = "decision_report"]]
  ELSE [route |-> "probe", st |-> st]

decisionRouter(st) ==
  IF st.hops >= MAX_HOPS
  THEN [route |-> "report", st |-> [st EXCEPT !.stopReason = "max_hops"]]
  ELSE IF st.metrics.requests >= MAX_REQ_PER_RUN
  THEN [route |-> "report", st |-> [st EXCEPT !.stopReason = "budget_exhausted"]]
  ELSE IF st.consecutiveSkips >= 3
  THEN [route |-> "report", st |-> [st EXCEPT !.stopReason = "no_valid_paths"]]
  ELSE IF st.decision = "report"
  THEN [route |-> "report", st |-> [st EXCEPT !.stopReason = "decision_report"]]
  ELSE [route |-> "probe", st |-> st]

\* buildGraph without the edge from report to END
GraphEdgeReportLoops(node, route) ==
  CASE node = "probe" -> "cortex"
    [] node = "cortex" -> route
    [] node = "report" -> "report"

\* the edges of buildGraph: the node that runs after `node`
GraphEdge(node, route) ==
  CASE node = "probe" -> "cortex"
    [] node = "cortex" -> route
    [] node = "report" -> "end"

(***************************************************************************)
(* Findings extractor and trace writer (reporter.js)                       *)
(***************************************************************************)
\* the six checks of extractFindings, in the order of the code
FindingSubtypes ==
  <<"stack_trace", "cors_wildcard", "missing_hsts", "missing_csp",
    "auth_error_details", "server_banner">>

\* the condition of each check
FindingMatches(subtype, obs) ==
  CASE subtype = "stack_trace" -> obs.status >= 500 /\ "\"stack\"" \in obs.bodySnippet
    [] subtype = "cors_wildcard" -> "access-control-allow-origin: *" \in obs.headers
    [] subtype = "missing_hsts" -> "strict-transport-security" \notin obs.headers
    [] subtype = "missing_csp" -> "content-security-policy" \notin obs.headers
    [] subtype = "auth_error_details" ->
         obs.status = 401 /\ "UnauthorizedError" \in obs.bodySnippet
    [] subtype = "server_banner" ->
         "server" \in obs.headers \/ "x-powered-by" \in obs.headers

\* FindingKey with the observation id in every key
FindingKeyPerObservation(subtype, obs) == <<subtype, obs.id>>

\* the key kept in the `seen` set
FindingKey(subtype, obs) ==
  CASE subtype = "stack_trace" -> <<"stack_trace:", Pathname(obs.url)>>
    [] subtype = "cors_wildcard" -> <<"cors_wildcard">>
    [] subtype = "missing_hsts" -> <<"missing_hsts">>
    [] subtype = "missing_csp" -> <<"missing_csp">>
    [] subtype = "auth_error_details" -> <<"auth_disclosure:", Pathname(obs.url)>>
    [] subtype = "server_banner" -> <<"server_disclosure">>

FindingOf(subtype, obs) ==
  [type |-> IF subtype \in {"cors_wildcard", "missing_hsts", "missing_csp"}
            THEN "security_misconfiguration" ELSE "information_disclosure",
   subtype |-> subtype,
   severity |-> CASE subtype = "stack_trace" -> "medium"
                  [] subtype = "server_banner" -> "info"
                  [] OTHER -> "low",
   path |-> Pathname(obs.url),
   owasp |-> IF subtype = "auth_error_details" THEN "A01:2021-Broken Access Control"
             ELSE "A05:2021-Security Misconfiguration",
   observationId |-> obs.id]

\* the body of the loop for one observation: the checks from number k on;
\* `findings` and `seen` are updated in place, so each check sees the value
\* the previous one left (the singleton set binds that value once)
RECURSIVE CheckObservation(_, _, _)
CheckObservation(obs, k, acc) ==
  IF k > Len(FindingSubtypes) THEN acc
  ELSE LET subtype == FindingSubtypes[k]
           key == FindingKey(subtype, obs)
           updated == IF FindingMatches(subtype, obs) /\ key \notin acc.seen
                      THEN [findings |-> Append(acc.findings, FindingOf(subtype, obs)),
                            seen |-> acc.seen \cup {key}]
                      ELSE acc
       IN CHOOSE r \in {CheckObservation(obs, k + 1, a) : a \in {updated}} : TRUE

RECURSIVE ScanObservations(_, _)
ScanObservations(observations, acc) ==
  IF observations = <<>> THEN acc
  ELSE CHOOSE r \in {ScanObservations(Tail(observations), a) :
                       a \in {CheckObservation(Head(observations), 1, acc)}} : TRUE

extractFindings(st) ==
  ScanObservations(st.observations, [findings |-> <<>>, seen |-> {}]).findings

\* writeTrace that extracts findings only when Cortex decided to report
writeTraceOnDecisionOnly(st) ==
  [written |-> TRUE,
   findings |-> IF st.stopReason = "decision_report" THEN extractFindings(st) ELSE <<>>,
   findingsCount |-> IF st.stopReason = "decision_report"
                     THEN Len(extractFindings(st)) ELSE 0,
   observations |-> st.observations,
   stopReason |-> st.stopReason]

\* the payload written to the trace file
writeTrace(st) ==
  [written |-> TRUE,
   findings |-> extractFindings(st),
   findingsCount |-> Len(extractFindings(st)),
   observations |-> st.observations,
   stopReason |-> st.stopReason]

(***************************************************************************)
(* The run: runOnce builds the state and invokes the graph                 *)
(***************************************************************************)
runOnce ==
  createInitialState @@
    [nextTool |-> "http_get", nextArgs |-> [path |-> Root], consecutiveSkips |-> 0]

NoDispatch == [result |-> "none", tool |-> Null, path |-> NullPath]

\* no call recorded in `returned` has been made
NoReturn == [fn |-> Null]

\* no trace file has been written
NoTrace ==
  [written |-> FALSE, findings |-> <<>>, findingsCount |-> 0, observations |-> <<>>,
   stopReason |-> Null]

Init ==
  /\ state = runOnce
  /\ pc = "probe"
  /\ inflight = <<>>
  /\ successes = 0
  /\ apiKey \in BOOLEAN
  /\ oracle \in Oracles
  /\ requestsSent = {}
  /\ lastDispatch = NoDispatch
  /\ llmCalls = <<>>
  /\ trace = NoTrace
  /\ lastForced = Null
  /\ returned = NoReturn

\* Probe node up to the request handed to the HTTP client; when no request is
\* issued (skip, budget gate) the node runs to its end
ProbeStart ==
  /\ pc = "probe"
  /\ LET toolName == state.nextTool
         d == DispatchStart(state, toolName, state.nextArgs)
     IN IF d.result = "sent"
        THEN /\ state' = d.st
             /\ inflight' = <<d.flight>>
             /\ pc' = "await"
             /\ requestsSent' = requestsSent \cup {[tool |-> toolName, url |-> d.flight.url]}
             /\ lastDispatch' = [result |-> "sent", tool |-> toolName, path |-> d.flight.path]
        ELSE /\ state' = probeNode(d.st, toolName, FALSE)
             /\ inflight' = <<>>
             /\ pc' = GraphEdge("probe", Null)
             /\ requestsSent' = requestsSent
             /\ lastDispatch' = [result |-> d.result, tool |-> toolName, path |-> d.flight.path]
  /\ UNCHANGED <<successes, apiKey, oracle, llmCalls, trace, lastForced, returned>>

\* the request in flight settles; the Probe node runs to its end unless
\* measure_timing goes on to its second request
HttpReturn ==
  /\ pc = "await"
  /\ \E resp \in ResponsesFor(inflight[1].tool) :
       LET fl == inflight[1]
           r == DispatchReturn(state, fl, resp)
       IN IF r.result = "pending"
          THEN /\ state' = r.st
               /\ inflight' = <<r.flight>>
               /\ pc' = "await"
               /\ lastDispatch' = [result |-> "pending", tool |-> fl.tool, path |-> fl.path]
          ELSE /\ state' = probeNode(r.st, state.nextTool, r.result = "ok")
               /\ inflight' = <<>>
               /\ pc' = GraphEdge("probe", Null)
               /\ lastDispatch' = [result |-> r.result, tool |-> fl.tool, path |-> fl.path]
  /\ UNCHANGED <<successes, apiKey, oracle, requestsSent, llmCalls, trace, lastForced,
                 returned>>

\* Cortex node, one LLM invocation at a time: llmCalls holds the outcomes of the
\* invocations the running call of runCortex has made, so Len(llmCalls) is the
\* index i of its retry loop. The node completes on a validated reply, on the
\* failure of the last attempt, and at once when no credential is configured.
CortexStep ==
  /\ pc = "cortex"
  /\ \E llm \in LLMOutcomes(oracle) :
       LET calls == IF apiKey THEN Append(llmCalls, IF llm.ok THEN "ok" ELSE "error")
                    ELSE llmCalls
           retry == apiKey /\ ~llm.ok /\ Len(calls) < attempts
       IN /\ llmCalls' = calls
          /\ IF retry
             THEN /\ state' = state
                  /\ pc' = "cortex"
                  /\ lastForced' = lastForced
             ELSE /\ state' = cortexNode(state, runCortex(state, apiKey, llm))
                  /\ pc' = "router"
                  /\ lastForced' = shouldForceTool(state')
  /\ UNCHANGED <<inflight, successes, apiKey, oracle, requestsSent, lastDispatch, trace,
                 returned>>

\* the conditional edge after Cortex; the call of runCortex is over
RouterStep ==
  /\ pc = "router"
  /\ LET r == decisionRouter(state)
     IN /\ state' = r.st
        /\ pc' = GraphEdge("cortex", r.route)
  /\ llmCalls' = <<>>
  /\ UNCHANGED <<inflight, successes, apiKey, oracle, requestsSent, lastDispatch, trace, lastForced,
                 returned>>

\* reportNode writes the trace; the graph then ends
ReportStep ==
  /\ pc = "report"
  /\ trace' = writeTrace(state)
  /\ pc' = GraphEdge("report", Null)
  /\ UNCHANGED <<state, inflight, successes, apiKey, oracle, requestsSent, lastDispatch, llmCalls, lastForced,
                 returned>>

Next == ProbeStart \/ HttpReturn \/ CortexStep \/ RouterStep \/ ReportStep

Spec == Init /\ [][Next]_vars

(***************************************************************************)
(* Batch execution: Cortex stages 1..MAX_ACTIONS_PER_DECISION actions and  *)
(* Probe dispatches them concurrently. Every dispatchTool call runs up to  *)
(* its first request when the batch is started, in batch order; the        *)
(* requests then settle in any order.                                      *)
(***************************************************************************)
Act(toolName, path) == [tool |-> toolName, args |-> [path |-> path]]

\* the batches the LLM of a batch run answers with
BatchOracle ==
  {<<Act("http_get", Root)>>,
   <<Act("http_get", ApiA), Act("http_get", ApiA), Act("http_get", ApiA)>>,
   <<Act("measure_timing", ApiA), Act("measure_timing", ApiA),
     Act("measure_timing", About), Act("measure_timing", About),
     Act("measure_timing", Root)>>}

runOnceBatch ==
  createInitialState @@
    [nextActions |-> <<Act("http_get", Root)>>,
     batchStats |-> [totalBatches |-> 0, totalActions |-> 0],
     consecutiveSkips |-> 0]

RECURSIVE dispatchToolsBatch(_, _, _)
dispatchToolsBatch(st, actions, flights) ==
  IF actions = <<>> THEN [st |-> st, flights |-> flights]
  ELSE CHOOSE r \in
         {dispatchToolsBatch(d.st, Tail(actions),
            IF d.result = "sent" THEN Append(flights, d.flight) ELSE flights) :
            d \in {DispatchStart(st, Head(actions).tool, Head(actions).args)}} : TRUE

\* probeNode once every dispatch of the batch has settled
probeNodeBatch(st, nSuccesses) ==
  LET st1 == IF nSuccesses > 0
             THEN [st EXCEPT !.consecutiveSkips = 0]
             ELSE [st EXCEPT !.skippedHops = @ + 1, !.consecutiveSkips = @ + 1]
  IN [st1 EXCEPT !.hops = @ + 1,
                 !.batchStats.totalBatches = @ + 1,
                 !.batchStats.totalActions = @ + Len(st.nextActions)]

\* normalize to next_actions: a legacy single action becomes a batch of one
NormalizeActions(parsed) ==
  IF Len(parsed.next_actions) = 0 /\ parsed.next_tool # Null
  THEN <<[tool |-> parsed.next_tool, args |-> [path |-> Root]]>>
  ELSE parsed.next_actions

\* runCortex of the batch engine
runCortexBatch(st, key, llm) ==
  IF ~key
  THEN [decision |-> "report", next_actions |-> <<>>,
        log |-> stubDecision(st).log, llmMeta |-> stubDecision(st).llmMeta]
  ELSE IF ~llm.ok
  THEN [decision |-> "report", next_actions |-> <<>>,
        log |-> [confidence_0_1 |-> 2, observation_ref |-> LatestObservationId(st),
                 owasp_category |-> "A05:2021-Security Misconfiguration"],
        llmMeta |-> [attempts |-> 2, usedFallback |-> TRUE, error |-> "llm_error"]]
  ELSE [decision |-> llm.decision, next_actions |-> NormalizeActions(llm),
        log |-> [confidence_0_1 |-> 3, observation_ref |-> LatestObservationId(st),
                 owasp_category |-> "A05:2021-Security Misconfiguration"],
        llmMeta |-> [attempts |-> 2, usedFallback |-> FALSE, error |-> Null]]

\* what one LLM invocation hands back: kind "error" is a provider error or text
\* that is not JSON; otherwise the parsed object, whose fields other than
\* decision and next_actions are valid
RawReply(decision, next_actions) ==
  [kind |-> "json", decision |-> decision, next_actions |-> next_actions,
   next_tool |-> Null]

SixActions ==
  <<Act("http_get", Root), Act("http_get", ApiA), Act("http_get", About),
    Act("http_post", Root), Act("http_post", ApiA), Act("http_post", About)>>

\* The replies the LLM of one batch run answers with. A run is driven by one
\* of two sets: the batches of BatchOracle, or replies that try the response
\* schema (a two-tool batch, no action, a legacy next_tool, "continue", six
\* actions, a tool that is not allowed, an action without path, a decision
\* that is not in the enum).
BatchRepliesBudget ==
  {RawReply("probe", b) : b \in BatchOracle}
    \cup {RawReply("report", <<>>),
          [RawReply("report", <<>>) EXCEPT !.kind = "error"]}

BatchRepliesSchema ==
  {RawReply("probe", <<Act("http_get", ApiA), Act("inspect_headers", About)>>),
   RawReply("probe", <<>>),
   [RawReply("probe", <<>>) EXCEPT !.next_tool = "http_get"],
   RawReply("continue", <<Act("http_get", Root)>>),
   RawReply("probe", SixActions),
   RawReply("probe", <<Act("http_get", Root), Act("shell", Root)>>),
   RawReply("probe", <<Act("http_get", NullPath)>>),
   RawReply("stop", <<>>),
   RawReply("report", <<>>)}

\* replies in the single-action format: no next_actions, a legacy next_tool
BatchRepliesLegacy ==
  {[RawReply("probe", <<>>) EXCEPT !.next_tool = "http_get"],
   [RawReply("probe", <<>>) EXCEPT !.next_tool = "inspect_headers"]}

BatchOracles == {BatchRepliesBudget, BatchRepliesSchema, BatchRepliesLegacy}

\* ActionSchema: tool is one of ALLOWED_TOOLS and args.path is a string
ActionSchema(action) ==
  action.tool \in ALLOWED_TOOLS /\ action.args.path.form # "null"

\* CortexResponseSchema.safeParse: keys the schema does not name (next_tool) are
\* dropped from the validated data
validateCortexResponse(data) ==
  IF /\ data.decision \in {"probe", "report", "continue"}
     /\ Len(data.next_actions) <= MAX_ACTIONS_PER_DECISION
     /\ \A i \in 1..Len(data.next_actions) : ActionSchema(data.next_actions[i])
  THEN [ok |-> TRUE,
        decision |-> IF data.decision = "continue" THEN "probe" ELSE data.decision,
        next_actions |-> data.next_actions,
        next_tool |-> Null]
  ELSE [ok |-> FALSE, decision |-> "report", next_actions |-> <<>>, next_tool |-> Null]

\* requestDecision: throws on a provider or JSON error, else validates
requestDecision(raw) ==
  IF raw.kind = "error"
  THEN [ok |-> FALSE, decision |-> "report", next_actions |-> <<>>, next_tool |-> Null]
  ELSE validateCortexResponse(raw)

BatchOutcomes(replies) == {requestDecision(raw) : raw \in replies}

cortexNodeBatch(st, cortexRes) ==
  LET st1 == [st EXCEPT
                !.decision = cortexRes.decision,
                !.reasoningLog = Append(@, cortexRes.log),
                !.llmMeta = cortexRes.llmMeta,
                !.decisions = Append(@, [hop |-> st.hops,
                                         decision |-> cortexRes.decision,
                                         batchSize |-> Len(cortexRes.next_actions)])]
      forcedTool == shouldForceTool(st1)
  IN IF forcedTool # Null
     THEN [st1 EXCEPT !.nextActions = <<Act(forcedTool, Root)>>]
     ELSE [st1 EXCEPT !.nextActions = cortexRes.next_actions]

InitBatch ==
  /\ state = runOnceBatch
  /\ pc = "probe"
  /\ inflight = <<>>
  /\ successes = 0
  /\ apiKey \in BOOLEAN
  /\ oracle \in BatchOracles
  /\ requestsSent = {}
  /\ lastDispatch = NoDispatch
  /\ llmCalls = <<>>
  /\ trace = NoTrace
  /\ lastForced = Null
  /\ returned = NoReturn

ProbeStartBatch ==
  /\ pc = "probe"
  /\ LET b == dispatchToolsBatch(state, state.nextActions, <<>>)
     IN /\ requestsSent' = requestsSent \cup
             {[tool |-> b.flights[i].tool, url |-> b.flights[i].url] :
                i \in 1..Len(b.flights)}
        /\ IF b.flights = <<>>
           THEN /\ state' = probeNodeBatch(b.st, 0)
                /\ pc' = GraphEdge("probe", Null)
                /\ lastDispatch' = [NoDispatch EXCEPT !.result = "skipped"]
           ELSE /\ state' = b.st
                /\ pc' = "await"
                /\ lastDispatch' = [NoDispatch EXCEPT !.result = "sent"]
        /\ inflight' = b.flights
  /\ successes' = 0
  /\ UNCHANGED <<apiKey, oracle, llmCalls, trace, lastForced, returned>>

HttpReturnBatch ==
  /\ pc = "await"
  /\ \E i \in 1..Len(inflight) : \E resp \in ResponsesFor(inflight[i].tool) :
       LET fl == inflight[i]
           r == DispatchReturn(state, fl, resp)
           st1 == IF r.result = "ok" THEN trackToolUsage(r.st, fl.tool) ELSE r.st
           n == IF r.result = "ok" THEN successes + 1 ELSE successes
       IN /\ lastDispatch' = [result |-> r.result, tool |-> fl.tool, path |-> fl.path]
          /\ IF r.result = "pending"
             THEN /\ state' = r.st
                  /\ inflight' = [inflight EXCEPT ![i] = r.flight]
                  /\ successes' = successes
                  /\ pc' = "await"
             ELSE IF Len(inflight) > 1
             THEN /\ state' = st1
                  /\ inflight' = RemoveAt(inflight, i)
                  /\ successes' = n
                  /\ pc' = "await"
             ELSE /\ state' = probeNodeBatch(st1, n)
                  /\ inflight' = <<>>
                  /\ successes' = 0
                  /\ pc' = GraphEdge("probe", Null)
  /\ UNCHANGED <<apiKey, oracle, requestsSent, llmCalls, trace, lastForced, returned>>

CortexStepBatch ==
  /\ pc = "cortex"
  /\ \E llm \in BatchOutcomes(oracle) :
       LET calls == IF apiKey THEN Append(llmCalls, IF llm.ok THEN "ok" ELSE "error")
                    ELSE llmCalls
           retry == apiKey /\ ~llm.ok /\ Len(calls) < attempts
       IN /\ llmCalls' = calls
          /\ IF retry
             THEN /\ state' = state
                  /\ pc' = "cortex"
                  /\ lastForced' = lastForced
             ELSE /\ state' = cortexNodeBatch(state, runCortexBatch(state, apiKey, llm))
                  /\ pc' = "router"
                  /\ lastForced' = shouldForceTool(state')
  /\ UNCHANGED <<inflight, successes, apiKey, oracle, requestsSent, lastDispatch, trace,
                 returned>>

NextBatch ==
  ProbeStartBatch \/ HttpReturnBatch \/ CortexStepBatch \/ RouterStep \/ ReportStep

SpecBatch == InitBatch /\ [][NextBatch]_vars

\* The runs progress is checked on: the LLM names one probe action throughout
\* the run (each action of every oracle in turn), or it is OracleGetOnly; in
\* both it also decides report and fails as in Spec.
FairOracles == {{a} : a \in UNION Oracles} \cup {OracleGetOnly}

InitFair ==
  /\ state = runOnce
  /\ pc = "probe"
  /\ inflight = <<>>
  /\ successes = 0
  /\ apiKey \in BOOLEAN
  /\ oracle \in FairOracles
  /\ requestsSent = {}
  /\ lastDispatch = NoDispatch
  /\ llmCalls = <<>>
  /\ trace = NoTrace
  /\ lastForced = Null
  /\ returned = NoReturn

\* every HTTP request and every LLM call eventually returns or fails, and the
\* graph runtime always runs the next node
FairSpec == InitFair /\ [][Next]_vars /\ WF_vars(Next)

(***************************************************************************)
(* The findings extractor on its own: Reporter is run on observation lists *)
(* drawn from a small set of observations.                                 *)
(***************************************************************************)
MaxObservations == 3

SampleObservation(path, status, headers, bodySnippet) ==
  [id |-> 0, tool |-> "httpGet", url |-> buildUrl(path), method |-> "GET",
   status |-> status, headers |-> headers, bodySnippet |-> bodySnippet]

ObservationSamples ==
  {SampleObservation(Root, 200, {}, {}),
   SampleObservation(ApiA, 500, {"x-powered-by"}, {"\"stack\""}),
   SampleObservation(Root, 500, {"strict-transport-security", "content-security-policy"},
                     {"\"stack\""}),
   SampleObservation(ApiA, 401,
                     {"access-control-allow-origin: *", "strict-transport-security",
                      "content-security-policy"},
                     {"UnauthorizedError"}),
   SampleObservation(Root, 401,
                     {"access-control-allow-origin: *", "server", "content-security-policy"},
                     {"UnauthorizedError", "\"stack\""}),
   SampleObservation(ApiA, 200,
                     {"strict-transport-security", "content-security-policy", "server"},
                     {"\"stack\""})}

\* the observation lists of at most MaxObservations entries, ids in order
ObservationLists ==
  UNION {{[i \in 1..n |-> [q[i] EXCEPT !.id = i]] : q \in [1..n -> ObservationSamples]} :
           n \in 0..MaxObservations}

InitFindings ==
  /\ \E observations \in ObservationLists :
       state = [runOnce EXCEPT !.observations = observations,
                               !.decision = "report",
                               !.stopReason = "decision_report"]
  /\ pc = "report"
  /\ inflight = <<>>
  /\ successes = 0
  /\ apiKey = FALSE
  /\ oracle = {}
  /\ requestsSent = {}
  /\ lastDispatch = NoDispatch
  /\ llmCalls = <<>>
  /\ trace = NoTrace
  /\ lastForced = Null
  /\ returned = NoReturn

NextFindings == ReportStep

SpecFindings == InitFindings /\ [][NextFindings]_vars

(***************************************************************************)
(* shouldForceTool on its own: it is applied to states whose hops and      *)
(* diversity tool usage are drawn from small ranges.                       *)
(***************************************************************************)
MaxForceHops == 11

MaxToolUsage == 2

InitForce ==
  /\ \E hops \in 0..MaxForceHops, ua \in 0..MaxToolUsage, ub \in 0..MaxToolUsage :
       state = [runOnce EXCEPT !.hops = hops,
                               !.toolUsage["inspect_headers"] = ua,
                               !.toolUsage["provoke_error"] = ub]
  /\ pc = "cortex"
  /\ inflight = <<>>
  /\ successes = 0
  /\ apiKey = FALSE
  /\ oracle = {}
  /\ requestsSent = {}
  /\ lastDispatch = NoDispatch
  /\ llmCalls = <<>>
  /\ trace = NoTrace
  /\ lastForced = Null
  /\ returned = NoReturn

\* the diversity test of cortexNode
ForceStep ==
  /\ pc = "cortex"
  /\ lastForced' = shouldForceTool(state)
  /\ pc' = "forced"
  /\ UNCHANGED <<state, inflight, successes, apiKey, oracle, requestsSent, lastDispatch,
                 llmCalls, trace, returned>>

NextForce == ForceStep

SpecForce == InitForce /\ [][NextForce]_vars

(***************************************************************************)
(* scorePath on its own: it is applied to a path and a state in which one  *)
(* path has hits, a last status and possibly a visit.                      *)
(***************************************************************************)
MaxScoreHits == 3

\* the values MAX_HITS_PER_PATH is configured with
MaxHitCap == 3

HitCaps == 1..MaxHitCap

Login == RelPath(<<"login">>, "")

ApiUser == RelPath(<<"api", "user">>, "")

Ftp == RelPath(<<"ftp">>, "")

ApiDocsJs == RelPath(<<"api", "docs">>, ".js")

ScorePaths == {About, ApiA, Login, ApiUser, Ftp, StylesCss, ApiDocsJs}

\* the run state with `hits` hits and last status `status` on `path`
ScoreState(path, visited, hits, status) ==
  [runOnce EXCEPT
     !.visitedPaths = IF visited THEN <<Root, path>> ELSE <<Root>>,
     !.pathHits = [p \in ScorePaths |-> IF p = path THEN hits ELSE 0],
     !.pathStats = [p \in ScorePaths |->
                      IF p = path /\ status # 0
                      THEN [hits |-> 1, lastTool |-> "http_get", lastStatus |-> status,
                            lastObservationId |-> 1]
                      ELSE NoStat]]

InitScore ==
  /\ \E path \in ScorePaths, visited \in BOOLEAN, hits \in 0..MaxScoreHits,
        status \in {0, 200, 404, 500}, cap \in {0, 1, 3} :
       state = IF cap = 0 THEN ScoreState(path, visited, hits, status)
               ELSE ScoreState(path, visited, hits, status) @@ [maxHitsPerPath |-> cap]
  /\ pc = "score"
  /\ inflight = <<>>
  /\ successes = 0
  /\ apiKey = FALSE
  /\ oracle = {}
  /\ requestsSent = {}
  /\ lastDispatch = NoDispatch
  /\ llmCalls = <<>>
  /\ trace = NoTrace
  /\ lastForced = Null
  /\ returned = NoReturn

\* one call of scorePath, in a process configured with MAX_HITS_PER_PATH =
\* maxHits; canHit is what path selection answers for the same path and state
ScoreStep ==
  /\ pc = "score"
  /\ \E path \in ScorePaths \cup {NullPath}, maxHits \in HitCaps :
       returned' = [fn |-> "scorePath", path |-> path, value |-> scorePath(path, state),
                    maxHits |-> maxHits, canHit |-> canHitAt(maxHits, state, path)]
  /\ pc' = "scored"
  /\ UNCHANGED <<state, inflight, successes, apiKey, oracle, requestsSent, lastDispatch,
                 llmCalls, trace, lastForced>>

NextScore == ScoreStep

SpecScore == InitScore /\ [][NextScore]_vars

(***************************************************************************)
(* choosePath on its own: it is applied to a tool and a desired path in a  *)
(* state that has a candidates queue, visited paths and hit counts.        *)
(***************************************************************************)
MaxCandidates == 3

\* the paths a page has linked, in the order they were found
Discovered == <<About, ApiA, Login, Ftp>>

\* the paths of the queue, '/', and a static path Cortex may name
ChoosePaths == {Root, StylesCss} \cup {Discovered[i] : i \in 1..Len(Discovered)}

\* the queues of at most MaxCandidates distinct discovered paths
CandidateQueues ==
  {q \in UNION {[1..n -> ChoosePaths \ {Root, StylesCss}] : n \in 0..MaxCandidates} :
     \A i, j \in 1..Len(q) : i # j => q[i] # q[j]}

\* the run state after the seed probe of '/' in which the paths of `visited`
\* have been requested `hits` times each and '/' `rootHits` times
ChooseState(queue, visited, hits, rootHits) ==
  [runOnce EXCEPT
     !.candidates = queue,
     !.visitedPaths = <<Root>> \o SelectSeq(Discovered, LAMBDA p : p \in visited),
     !.pathHits = [p \in ChoosePaths |-> IF p = Root THEN rootHits
                                         ELSE IF p \in visited THEN hits ELSE 0],
     !.pathStats = [p \in ChoosePaths |-> NoStat],
     !.lastAction = [tool |-> "http_get", path |-> Root]]

InitChoose ==
  /\ \E queue \in CandidateQueues, visited \in SUBSET (ChoosePaths \ {Root, StylesCss}),
        hits \in 1..MAX_HITS_PER_PATH, rootHits \in 1..MAX_HITS_PER_PATH :
       state = ChooseState(queue, visited, hits, rootHits)
  /\ pc = "choose"
  /\ inflight = <<>>
  /\ successes = 0
  /\ apiKey = FALSE
  /\ oracle = {}
  /\ requestsSent = {}
  /\ lastDispatch = NoDispatch
  /\ llmCalls = <<>>
  /\ trace = NoTrace
  /\ lastForced = Null
  /\ returned = NoReturn

\* one call of choosePath
ChooseStep ==
  /\ pc = "choose"
  /\ \E toolName \in {"http_get", "http_post"}, desiredPath \in ChoosePaths :
       LET chosen == choosePath(state, toolName, desiredPath)
       IN /\ state' = chosen.st
          /\ returned' = [fn |-> "choosePath", tool |-> toolName, desired |-> desiredPath,
                          queue |-> state.candidates, value |-> chosen.path]
  /\ pc' = "chosen"
  /\ UNCHANGED <<inflight, successes, apiKey, oracle, requestsSent, lastDispatch,
                 llmCalls, trace, lastForced>>

NextChoose == ChooseStep

SpecChoose == InitChoose /\ [][NextChoose]_vars

(***************************************************************************)
(* dispatchTool on its own: one call, from its entry to its return, in a   *)
(* state that has a candidates queue, visited paths and any request count  *)
(* (a batch starts its dispatches while earlier ones have used the budget).*)
(***************************************************************************)
DispatchQueues == {<<>>, <<About, ApiA>>, <<Login, About>>}

\* the tool names dispatchTool is called with; "shell" is none of its cases
DispatchTools == ALLOWED_TOOLS \cup {"shell"}

Feedbacks == RelPath(<<"api", "Feedbacks">>, "")

DispatchArgPaths == {Root, ApiA, StylesCss, Feedbacks, NullPath}

\* args.body of an http_post: absent, or an object in which captchaId is
\* absent, a non-empty string or an empty string
DispatchArgs(toolName, path) ==
  IF toolName = "http_post"
  THEN {[path |-> path]}
         \cup {[path |-> path, body |-> b] :
                 b \in {[comment |-> "x"],
                        [comment |-> "x", captchaId |-> "mine"],
                        [comment |-> "x", captchaId |-> ""]}}
  ELSE {[path |-> path]}

\* state.captcha: nothing fetched, or what an earlier captcha_fetch of the run
\* stored (without id, with id, with id and answer)
DispatchCaptchas ==
  {NoCaptcha,
   [fetched |-> TRUE, captchaId |-> Null, answer |-> Null],
   [fetched |-> TRUE, captchaId |-> "c1", answer |-> Null],
   [fetched |-> TRUE, captchaId |-> "c1", answer |-> "a1"]}

DispatchState(queue, visited, rootHits, requests, captcha) ==
  [ChooseState(queue, visited, 1, rootHits) EXCEPT
     !.pathHits = @ @@ [p \in {CaptchaDefault, Feedbacks} |-> 0],
     !.pathStats = @ @@ [p \in {CaptchaDefault, Feedbacks} |-> NoStat],
     !.metrics.requests = requests,
     !.metrics.perTool["httpGet"] = requests,
     !.captcha = captcha]

InitDispatch ==
  /\ \E queue \in DispatchQueues, visited \in SUBSET {About, ApiA},
        rootHits \in 1..MAX_HITS_PER_PATH, requests \in 0..(MAX_REQ_PER_RUN + 1),
        captcha \in DispatchCaptchas :
       state = DispatchState(queue, visited, rootHits, requests, captcha)
  /\ pc = "dispatch"
  /\ inflight = <<>>
  /\ successes = 0
  /\ apiKey = FALSE
  /\ oracle = {}
  /\ requestsSent = {}
  /\ lastDispatch = NoDispatch
  /\ llmCalls = <<>>
  /\ trace = NoTrace
  /\ lastForced = Null
  /\ returned = NoReturn

\* the answers of the target: those of a run, and for captcha_fetch also the
\* captcha document
DispatchResponsesFor(toolName) ==
  IF toolName = "captcha_fetch"
  THEN ResponsesFor(toolName)
         \cup {[kind |-> "response", status |-> 200, body |-> <<>>, headers |-> {},
                data |-> {"captchaId", "answer"}]}
  ELSE ResponsesFor(toolName)

\* a request handed to the HTTP client
Issued(fl) == [tool |-> fl.tool, url |-> fl.url, phase |-> fl.phase]

\* dispatchTool from its entry to its first request, or to its return when it
\* issues none; `before` keeps the state the call was made in
DispatchStep ==
  /\ pc = "dispatch"
  /\ \E toolName \in DispatchTools, path \in DispatchArgPaths :
     \E args \in DispatchArgs(toolName, path) :
       LET d == DispatchStart(state, toolName, args)
       IN /\ state' = d.st
          /\ lastDispatch' = [result |-> d.result, tool |-> toolName, path |-> d.flight.path]
          /\ returned' = [fn |-> "dispatchTool", tool |-> toolName, args |-> args,
                          before |-> state, value |-> FALSE]
          /\ IF d.result = "sent"
             THEN /\ inflight' = <<d.flight>>
                  /\ requestsSent' = {Issued(d.flight)}
                  /\ pc' = "await"
             ELSE /\ inflight' = <<>>
                  /\ requestsSent' = requestsSent
                  /\ pc' = "dispatched"
  /\ UNCHANGED <<successes, apiKey, oracle, llmCalls, trace, lastForced>>

\* the request in flight settles: measure_timing goes on to its test request,
\* any other outcome runs dispatchTool to its return
DispatchSettle ==
  /\ pc = "await"
  /\ \E resp \in DispatchResponsesFor(inflight[1].tool) :
       LET fl == inflight[1]
           r == DispatchReturn(state, fl, resp)
       IN /\ state' = r.st
          /\ lastDispatch' = [result |-> r.result, tool |-> fl.tool, path |-> fl.path]
          /\ IF r.result = "pending"
             THEN /\ inflight' = <<r.flight>>
                  /\ requestsSent' = requestsSent \cup {Issued(r.flight)}
                  /\ returned' = returned
                  /\ pc' = "await"
             ELSE /\ inflight' = <<>>
                  /\ requestsSent' = requestsSent
                  /\ returned' = [returned EXCEPT !.value = (r.result = "ok")]
                  /\ pc' = "dispatched"
  /\ UNCHANGED <<successes, apiKey, oracle, llmCalls, trace, lastForced>>

\* the rest of probeNode once dispatchTool has returned
ProbeEnd ==
  /\ pc = "dispatched"
  /\ state' = probeNode(state, returned.tool, returned.value)
  /\ pc' = "probed"
  /\ UNCHANGED <<inflight, successes, apiKey, oracle, requestsSent, lastDispatch, llmCalls,
                 trace, lastForced, returned>>

NextDispatch == DispatchStep \/ DispatchSettle \/ ProbeEnd

SpecDispatch == InitDispatch /\ [][NextDispatch]_vars

(***************************************************************************)
(* Properties                                                              *)
(***************************************************************************)
TargetOrigin == Origin(buildUrl(Root))

\* C1: every HTTP request issued by a tool targets a URL whose origin is the
\* origin of TARGET_URL, whatever Cortex names as args.path
C1_RequestsStayOnTargetOrigin ==
  \A r \in requestsSent : Origin(r.url) = TargetOrigin

\* C2: each time a Probe invocation has completed, metrics.requests is at most
\* MAX_REQ_PER_RUN
C2_BudgetHoldsBetweenHops ==
  pc = "cortex" => state.metrics.requests <= MAX_REQ_PER_RUN

\* C4: hops never exceeds MAX_HOPS, and Probe is never entered with hops
\* already at MAX_HOPS
C4_HopsBounded ==
  /\ state.hops <= MAX_HOPS
  /\ pc \in {"probe", "await"} => state.hops < MAX_HOPS

C4_Witness ==
  /\ pc = "end"
  /\ state.hops = MAX_HOPS
  /\ state.stopReason = "max_hops"
  /\ state.skippedHops > 0

StopCondition(st) ==
  \/ st.hops >= MAX_HOPS
  \/ st.metrics.requests >= MAX_REQ_PER_RUN
  \/ st.consecutiveSkips >= 3
  \/ st.decision = "report"

FirstStopReason(st) ==
  IF st.hops >= MAX_HOPS THEN "max_hops"
  ELSE IF st.metrics.requests >= MAX_REQ_PER_RUN THEN "budget_exhausted"
  ELSE IF st.consecutiveSkips >= 3 THEN "no_valid_paths"
  ELSE "decision_report"

\* C6: the router routes to report exactly when a stop condition holds, with the
\* stopReason of the first condition in the order max_hops, budget_exhausted,
\* no_valid_paths, decision_report; otherwise it routes to probe and leaves
\* stopReason unset
C6_RouterStopsExactly ==
  [][pc = "router" =>
       /\ (pc' = "report") <=> StopCondition(state)
       /\ pc' = "report" => state'.stopReason = FirstStopReason(state)
       /\ pc' # "report" => (pc' = "probe" /\ state'.stopReason = Null)]_vars

C6_Witness ==
  /\ pc = "report"
  /\ state.stopReason = "budget_exhausted"
  /\ state.consecutiveSkips >= 3
  /\ state.decision = "report"

C8_StopReasonSetOnce ==
  /\ [](pc \in {"probe", "await", "cortex", "router"} <=> state.stopReason = Null)
  /\ [][/\ state.stopReason # Null => state'.stopReason = state.stopReason
        /\ pc = "report" => pc' = "end"
        /\ pc = "end" => (pc' = "end" /\ state' = state)]_vars

C8_Witness ==
  /\ pc = "end"
  /\ state.stopReason = "no_valid_paths"
  /\ state.hops < MAX_HOPS

\* the number of hops whose request failed with a transport error
TransportErrors(st) ==
  Cardinality({i \in 1..Len(st.metrics.errors) : st.metrics.errors[i].by = "recordError"})

\* C9: when the HTTP call of a dispatch fails with a transport error no
\* observation is appended, pathStats and lastAction keep their values, the
\* failure is recorded in metrics.errors and the dispatch counts as failed
C9_TransportErrorLeavesNoObservation ==
  [][(pc = "await" /\ lastDispatch'.result = "transport_error") =>
       /\ state'.observations = state.observations
       /\ state'.pathStats = state.pathStats
       /\ state'.lastAction = state.lastAction
       /\ TransportErrors(state') = TransportErrors(state) + 1
       /\ state'.skippedHops = state.skippedHops + 1
       /\ state'.toolUsage = state.toolUsage
       /\ pc' = "cortex"]_vars

C9_Witness ==
  /\ pc = "cortex"
  /\ lastDispatch.result = "transport_error"
  /\ lastDispatch.tool = "measure_timing"
  /\ state.observations # <<>>

\* C10: after hops whose requests all failed with a transport error the router
\* keeps routing to Probe as long as hops < MAX_HOPS, metrics.requests <
\* MAX_REQ_PER_RUN, a valid path can be selected and Cortex decides probe
C10_TransportErrorsNeverStopTheLoop ==
  [][(/\ pc = "router"
      /\ state.skippedHops > 0
      /\ state.skippedHops = TransportErrors(state)
      /\ state.consecutiveSkips = state.skippedHops
      /\ state.hops < MAX_HOPS
      /\ state.metrics.requests < MAX_REQ_PER_RUN
      /\ state.decision = "probe"
      /\ DispatchStart(state, state.nextTool, state.nextArgs).result = "sent")
     => pc' = "probe"]_vars

\* C3: a completed run with concurrently dispatched batches ends with
\* metrics.requests <= MAX_REQ_PER_RUN + MAX_ACTIONS_PER_DECISION - 1
C3_BatchOvershootBounded ==
  pc = "end" =>
    state.metrics.requests <= MAX_REQ_PER_RUN + MAX_ACTIONS_PER_DECISION - 1

C3_Witness ==
  /\ pc = "end"
  /\ state.metrics.requests > MAX_REQ_PER_RUN
  /\ state.batchStats.totalActions > state.batchStats.totalBatches

\* C5: pathHits of every path is at most MAX_HITS_PER_PATH, also when a path
\* appears in several actions of one batch and when a forced tool targets it
C5_PathHitsCapped ==
  \A p \in AllPaths : state.pathHits[p] <= MAX_HITS_PER_PATH

C5_Witness ==
  /\ pc = "cortex"
  /\ state.hops = 2
  /\ Len(state.nextActions) = 3
  /\ state.pathHits[ApiA] = MAX_HITS_PER_PATH
  /\ state.skippedHops = 0

\* C11: one Cortex call makes at most 2 LLM invocations, the second only after
\* the first failed; when both fail the call returns decision report with the
\* fallback entry (confidence 0.2, A05:2021-Security Misconfiguration),
\* llmMeta.usedFallback set and llmMeta.error set, and the router then routes
\* to Reporter
C11_CortexRetriesOnceThenFallsBack ==
  /\ [](/\ Len(llmCalls) <= 2
        /\ \A i \in 1..(Len(llmCalls) - 1) : llmCalls[i] = "error"
        /\ (pc = "router" /\ llmCalls = <<"error", "error">>) =>
             /\ state.decision = "report"
             /\ state.reasoningLog[Len(state.reasoningLog)].confidence_0_1 = 2
             /\ state.reasoningLog[Len(state.reasoningLog)].owasp_category =
                  "A05:2021-Security Misconfiguration"
             /\ state.llmMeta.usedFallback
             /\ state.llmMeta.error # Null)
  /\ [][(pc = "router" /\ llmCalls = <<"error", "error">>) => pc' = "report"]_vars

C11_Witness ==
  /\ pc = "router"
  /\ llmCalls = <<"error", "error">>
  /\ state.hops >= 2
  /\ state.hops < MAX_HOPS
  /\ state.metrics.requests < MAX_REQ_PER_RUN
  /\ state.consecutiveSkips < 3

\* C12: without an LLM credential a run makes exactly one Probe (the seed
\* http_get on /) and one Cortex call with no LLM invocation, then Reporter: it
\* ends with hops = 1, decision report, llmMeta.usedFallback set, and stopReason
\* decision_report when MAX_HOPS >= 2 and MAX_REQ_PER_RUN >= 2
C12_NoCredentialStopsAfterOneHop ==
  ~apiKey =>
    /\ llmCalls = <<>>
    /\ state.hops <= 1
    /\ Len(state.decisions) <= 1
    /\ requestsSent \subseteq {[tool |-> "http_get", url |-> buildUrl(Root)]}
    /\ pc \in {"report", "end"} =>
         /\ state.hops = 1
         /\ Len(state.decisions) = 1
         /\ state.decision = "report"
         /\ state.llmMeta.usedFallback
         /\ state.llmMeta.attempts = 0
         /\ (MAX_HOPS >= 2 /\ MAX_REQ_PER_RUN >= 2) =>
              state.stopReason = "decision_report"

C12_Witness ==
  /\ ~apiKey
  /\ pc = "end"
  /\ state.observations # <<>>
  /\ state.toolUsage["http_get"] = 1

\* C13: every entry of reasoningLog has observation_ref null or equal to the id
\* of an observation present in observations, also when the value comes from
\* the validated LLM response
C13_ObservationRefNamesAnObservation ==
  \A i \in 1..Len(state.reasoningLog) :
    \/ state.reasoningLog[i].observation_ref = 0
    \/ \E j \in 1..Len(state.observations) :
         state.observations[j].id = state.reasoningLog[i].observation_ref

\* C14: whenever the candidates list is emitted (handed to Cortex at a hop
\* boundary, or present at report time) no path of it is in visitedPaths, also
\* for a path discovered as a candidate and later dispatched because Cortex
\* named it as args.path
C14_CandidatesDisjointFromVisited ==
  pc \in {"cortex", "report", "end"} =>
    \A i \in 1..Len(state.candidates) : ~InSeq(state.candidates[i], state.visitedPaths)

\* the triggers and the dedup keys of the findings table
Triggers(subtype, obs) ==
  \/ subtype = "stack_trace" /\ obs.status >= 500 /\ "\"stack\"" \in obs.bodySnippet
  \/ subtype = "cors_wildcard" /\ "access-control-allow-origin: *" \in obs.headers
  \/ subtype = "missing_hsts" /\ "strict-transport-security" \notin obs.headers
  \/ subtype = "missing_csp" /\ "content-security-policy" \notin obs.headers
  \/ subtype = "auth_error_details" /\ obs.status = 401
       /\ "UnauthorizedError" \in obs.bodySnippet
  \/ subtype = "server_banner" /\ obs.headers \cap {"server", "x-powered-by"} # {}

PerPathSubtypes == {"stack_trace", "auth_error_details"}

Subtypes ==
  {"stack_trace", "cors_wildcard", "missing_hsts", "missing_csp",
   "auth_error_details", "server_banner"}

DedupKey(subtype, path) ==
  IF subtype \in PerPathSubtypes THEN <<subtype, path>> ELSE <<subtype>>

\* the index of the first observation that triggers the key of (subtype, path);
\* 0 when none does
FirstTrigger(observations, subtype, path) ==
  LET hits == {k \in 1..Len(observations) :
                 /\ Triggers(subtype, observations[k])
                 /\ DedupKey(subtype, Pathname(observations[k].url)) =
                      DedupKey(subtype, path)}
  IN IF hits = {} THEN 0 ELSE CHOOSE k \in hits : \A m \in hits : k <= m

\* no two findings share a dedup key, every finding refers to the first
\* observation that triggered its key, every triggered key has its finding, and
\* the findings are in first-seen order
FindingsDeduplicated(findings, observations) ==
  /\ \A i, j \in 1..Len(findings) :
       i # j => DedupKey(findings[i].subtype, findings[i].path) #
                  DedupKey(findings[j].subtype, findings[j].path)
  /\ \A i \in 1..Len(findings) :
       /\ findings[i].subtype \in Subtypes
       /\ FirstTrigger(observations, findings[i].subtype, findings[i].path) # 0
       /\ findings[i].observationId =
            observations[FirstTrigger(observations, findings[i].subtype,
                                      findings[i].path)].id
  /\ \A k \in 1..Len(observations) : \A subtype \in Subtypes :
       Triggers(subtype, observations[k]) =>
         \E i \in 1..Len(findings) :
           DedupKey(findings[i].subtype, findings[i].path) =
             DedupKey(subtype, Pathname(observations[k].url))
  /\ \A i, j \in 1..Len(findings) :
       i < j => FirstTrigger(observations, findings[i].subtype, findings[i].path) <=
                  FirstTrigger(observations, findings[j].subtype, findings[j].path)

\* C15: for every sequence of observations the findings list has no two entries
\* with the same dedup key (one each for cors_wildcard, missing_hsts,
\* missing_csp and server_banner, one stack_trace and one auth_error_details
\* per URL pathname), and each finding refers to the first observation that
\* triggered its key, in first-seen order
C15_FindingsHaveDistinctKeys ==
  pc = "end" => FindingsDeduplicated(trace.findings, state.observations)

C15_Witness ==
  /\ pc = "end"
  /\ \E i, j \in 1..Len(state.observations) :
       /\ i < j
       /\ Triggers("cors_wildcard", state.observations[i])
       /\ Triggers("cors_wildcard", state.observations[j])
       /\ state.observations[i].url # state.observations[j].url
       /\ Triggers("auth_error_details", state.observations[i])
       /\ Triggers("auth_error_details", state.observations[j])
  /\ Cardinality({i \in 1..Len(trace.findings) :
                    trace.findings[i].subtype = "cors_wildcard"}) = 1
  /\ Cardinality({i \in 1..Len(trace.findings) :
                    trace.findings[i].subtype = "auth_error_details"}) = 2

StopReasons == {"max_hops", "budget_exhausted", "no_valid_paths", "decision_report"}

\* C16: whatever the stop reason, the findings written by Reporter are the
\* findings of all observations accumulated up to termination; no stop path
\* skips the extraction, and an empty observation list yields no finding
C16_ReporterExtractsFromAllObservations ==
  /\ trace.written <=> pc = "end"
  /\ pc = "end" =>
       /\ state.stopReason \in StopReasons
       /\ trace.stopReason = state.stopReason
       /\ trace.observations = state.observations
       /\ trace.findingsCount = Len(trace.findings)
       /\ FindingsDeduplicated(trace.findings, state.observations)
       /\ state.observations = <<>> => trace.findings = <<>>

C16_Witness ==
  /\ pc = "end"
  /\ state.stopReason = "no_valid_paths"
  /\ Len(state.observations) >= 2
  /\ Len(trace.findings) >= 4

\* C17: shouldForceTool returns null when hops < DIVERSITY_INTERVAL; from then
\* on it returns the first of inspect_headers, provoke_error whose usage is 0;
\* when both have been used it returns the least used of the two only if hops
\* is a multiple of DIVERSITY_INTERVAL and that usage is below
\* hops / DIVERSITY_INTERVAL, and null otherwise
C17_ShouldForceToolCases ==
  pc = "forced" =>
    LET hops == state.hops
        ua == state.toolUsage["inspect_headers"]
        ub == state.toolUsage["provoke_error"]
        least == IF ua <= ub THEN ua ELSE ub
    IN /\ hops < DIVERSITY_INTERVAL => lastForced = Null
       /\ (hops >= DIVERSITY_INTERVAL /\ ua = 0) => lastForced = "inspect_headers"
       /\ (hops >= DIVERSITY_INTERVAL /\ ua > 0 /\ ub = 0) => lastForced = "provoke_error"
       /\ (hops >= DIVERSITY_INTERVAL /\ ua > 0 /\ ub > 0) =>
            IF hops % DIVERSITY_INTERVAL = 0 /\ least * DIVERSITY_INTERVAL < hops
            THEN /\ lastForced \in {"inspect_headers", "provoke_error"}
                 /\ state.toolUsage[lastForced] = least
            ELSE lastForced = Null

C17_Witness ==
  /\ pc = "forced"
  /\ state.hops = 2 * DIVERSITY_INTERVAL
  /\ state.toolUsage["inspect_headers"] = 2
  /\ state.toolUsage["provoke_error"] = 1
  /\ lastForced = "provoke_error"

\* Cortex has asked for http_get on every hop so far
CortexAlwaysAsksHttpGet ==
  \A i \in 1..Len(state.decisions) :
    state.decisions[i].decision = "probe" /\ state.decisions[i].next_tool = "http_get"

\* C18: in a run where Cortex asks for http_get on every hop and the target
\* answers every request, the engine forces inspect_headers after hop 5 and
\* provoke_error after hop 6, and the run ends with both tools used at least
\* once (for MAX_HOPS >= 7 and a budget that is not exhausted first), whatever
\* the paths Cortex names and whatever the candidates queue holds
C18_DiversityToolsGetUsed ==
  (CortexAlwaysAsksHttpGet /\ TransportErrors(state) = 0) =>
    /\ (pc = "router" /\ state.hops = DIVERSITY_INTERVAL) =>
         state.nextTool = "inspect_headers"
    /\ (pc = "router" /\ state.hops = DIVERSITY_INTERVAL + 1) =>
         state.nextTool = "provoke_error"
    /\ (/\ pc = "end"
        /\ MAX_HOPS >= 7
        /\ state.hops >= DIVERSITY_INTERVAL + 2
        /\ state.stopReason # "budget_exhausted") =>
         /\ state.toolUsage["inspect_headers"] >= 1
         /\ state.toolUsage["provoke_error"] >= 1

SumPerTool(st) ==
  st.metrics.perTool["httpGet"] + st.metrics.perTool["httpPost"]
    + st.metrics.perTool["inspectHeaders"] + st.metrics.perTool["provokeError"]
    + st.metrics.perTool["measureTiming"] + st.metrics.perTool["captchaFetch"]

ObservationsBy(st, tool) ==
  Cardinality({i \in 1..Len(st.observations) : st.observations[i].tool = tool})

\* C19: metrics.requests equals the sum of the metrics.perTool counts, and for
\* each tool the number of observations it produced is at most its perTool
\* count, at most half of it for measure_timing
C19_RequestsEqualPerToolSum ==
  /\ state.metrics.requests = SumPerTool(state)
  /\ \A tool \in MetricNames :
       IF tool = "measureTiming"
       THEN 2 * ObservationsBy(state, tool) <= state.metrics.perTool[tool]
       ELSE ObservationsBy(state, tool) <= state.metrics.perTool[tool]
  /\ \A i \in 1..Len(state.observations) : state.observations[i].tool \in MetricNames

C19_Witness ==
  /\ state.metrics.perTool["measureTiming"] = 4
  /\ ObservationsBy(state, "measureTiming") = 1
  /\ ObservationsBy(state, "httpGet") = 1
  /\ state.metrics.perTool["httpGet"] = 1
  /\ pc = "cortex"

\* C20: every Probe invocation increments hops by exactly 1; when its dispatch
\* succeeded it resets consecutiveSkips to 0 and leaves skippedHops unchanged,
\* otherwise it increments skippedHops and consecutiveSkips by exactly 1; no
\* other node changes the three counters; hence always
\* consecutiveSkips <= skippedHops <= hops and consecutiveSkips <= 3
C20_ProbeCountsHopsAndSkips ==
  /\ [](/\ state.consecutiveSkips <= state.skippedHops
        /\ state.skippedHops <= state.hops
        /\ state.consecutiveSkips <= 3)
  /\ [][IF pc \in {"probe", "await"} /\ pc' = "cortex"
        THEN /\ state'.hops = state.hops + 1
             /\ IF lastDispatch'.result = "ok"
                THEN /\ state'.consecutiveSkips = 0
                     /\ state'.skippedHops = state.skippedHops
                     /\ Len(state'.observations) = Len(state.observations) + 1
                ELSE /\ state'.consecutiveSkips = state.consecutiveSkips + 1
                     /\ state'.skippedHops = state.skippedHops + 1
                     /\ state'.observations = state.observations
        ELSE /\ state'.hops = state.hops
             /\ state'.consecutiveSkips = state.consecutiveSkips
             /\ state'.skippedHops = state.skippedHops]_vars

C20_Witness ==
  /\ pc = "cortex"
  /\ lastDispatch.result = "ok"
  /\ state.consecutiveSkips = 0
  /\ state.skippedHops = 2
  /\ state.hops = 4

\* C21: hops are strictly serial: Cortex is never invoked while a request of
\* the current batch is in flight, no Probe starts while a Cortex call is
\* pending, and observations are only appended, one at a time, while the
\* Probe of the current hop awaits its requests (after Cortex call number hops
\* and before the next one), under every completion order of the batch
C21_HopsStrictlySerial ==
  /\ [](/\ pc \in {"cortex", "router", "report", "end"} => inflight = <<>>
        /\ pc \in {"probe", "await"} => llmCalls = <<>>
        /\ pc = "await" => (inflight # <<>> /\ Len(state.decisions) = state.hops))
  /\ [][/\ state'.observations # state.observations =>
             /\ pc = "await"
             /\ Len(state'.observations) = Len(state.observations) + 1
             /\ SubSeq(state'.observations, 1, Len(state.observations)) = state.observations
             /\ Len(state'.decisions) = Len(state.decisions)
        /\ state'.decisions # state.decisions =>
             /\ pc = "cortex"
             /\ inflight = <<>>
             /\ state'.observations = state.observations
        /\ state'.hops # state.hops =>
             /\ pc \in {"probe", "await"}
             /\ inflight' = <<>>
             /\ pc' = "cortex"]_vars

\* two requests of one batch settled in the reverse of their dispatch order
C21_Witness ==
  /\ pc = "cortex"
  /\ state.hops = 2
  /\ state.nextActions = <<Act("http_get", ApiA), Act("inspect_headers", About)>>
  /\ \E i, j \in 1..Len(state.observations) :
       /\ i < j
       /\ state.observations[i].tool = "inspectHeaders"
       /\ state.observations[i].url = buildUrl(About)
       /\ state.observations[j].tool = "httpGet"
       /\ state.observations[j].url = buildUrl(ApiA)

\* C22: each Cortex call appends exactly one ReasoningEntry and exactly one
\* DecisionEntry, also when the stub or the fallback is used: after every
\* Cortex step length(reasoningLog) = length(decisions) = hops, and the k-th
\* DecisionEntry has hop = k
C22_OneEntryPerCortexCall ==
  /\ [](/\ Len(state.reasoningLog) = Len(state.decisions)
        /\ \A k \in 1..Len(state.decisions) : state.decisions[k].hop = k
        /\ pc \in {"router", "report", "end"} => Len(state.decisions) = state.hops)
  /\ [][IF pc = "cortex" /\ pc' = "router"
        THEN /\ Len(state'.reasoningLog) = Len(state.reasoningLog) + 1
             /\ Len(state'.decisions) = Len(state.decisions) + 1
             /\ SubSeq(state'.reasoningLog, 1, Len(state.reasoningLog)) = state.reasoningLog
             /\ SubSeq(state'.decisions, 1, Len(state.decisions)) = state.decisions
        ELSE /\ state'.reasoningLog = state.reasoningLog
             /\ state'.decisions = state.decisions]_vars

C22_Witness ==
  /\ pc = "router"
  /\ state.hops = 3
  /\ Len(state.decisions) = 3
  /\ state.llmMeta.usedFallback
  /\ state.skippedHops = 1

\* the score of section 4.3, term by term
ReferenceScore(path, st) ==
  LET hits == st.pathHits[path]
      lastStatus == st.pathStats[path].lastStatus
      maxHitsPerPath == IF "maxHitsPerPath" \in DOMAIN st THEN st.maxHitsPerPath ELSE 2
  IN (IF InSeq(path, st.visitedPaths) THEN 0 ELSE 2)
       + (IF hits >= maxHitsPerPath THEN -3 ELSE -hits)
       + (IF path.ext \in STATIC_EXTENSIONS THEN -2 ELSE 0)
       + (IF path.segs # <<>> /\ path.segs[1] \in API_PATH_PATTERNS THEN 3 ELSE 0)
       + (IF \E i \in 1..Len(path.segs) : path.segs[i] \in AUTH_PATH_PATTERNS THEN 3 ELSE 0)
       + (IF \E i \in 1..Len(path.segs) : path.segs[i] \in SENSITIVE_PATH_PATTERNS
          THEN 2 ELSE 0)
       + (IF lastStatus >= 500 THEN 2 ELSE IF lastStatus >= 400 THEN 1 ELSE 0)

\* C23: for every non-null path and every state scorePath returns the score of
\* the reference formula (+2 unvisited; -3 if hits >= maxHitsPerPath, else
\* -hits; -2 static; +3 API; +3 auth; +2 sensitive; +2 if lastStatus >= 500,
\* else +1 if lastStatus >= 400); for a null path it returns score -10; it
\* leaves the state as it was, and the same inputs give the same output
C23_ScorePathMatchesReference ==
  /\ [](pc = "scored" =>
          /\ returned.value.path = returned.path
          /\ returned.value = scorePath(returned.path, state)
          /\ IF returned.path = NullPath
             THEN returned.value.score = -10
             ELSE /\ returned.value.score = ReferenceScore(returned.path, state)
                  /\ returned.value.hits = state.pathHits[returned.path]
                  /\ returned.value.lastStatus = state.pathStats[returned.path].lastStatus)
  /\ [][pc = "score" => state' = state]_vars

C23_Witness ==
  /\ pc = "scored"
  /\ returned.path = ApiDocsJs
  /\ InSeq(ApiDocsJs, state.visitedPaths)
  /\ state.pathHits[ApiDocsJs] = 3
  /\ state.pathStats[ApiDocsJs].lastStatus = 500
  /\ returned.value.score = 2

\* C24: a Cortex response with decision probe (or continue) passes validation
\* only if it carries between 1 and MAX_ACTIONS_PER_DECISION actions, each with
\* a tool in ALLOWED_TOOLS, so every batch staged for Probe after a successful
\* Cortex call has size 1..MAX_ACTIONS_PER_DECISION
C24_ProbeBatchHasOneToFiveActions ==
  (/\ pc = "router"
   /\ llmCalls # <<>>
   /\ llmCalls[Len(llmCalls)] = "ok"
   /\ state.decision = "probe") =>
    /\ Len(state.nextActions) \in 1..MAX_ACTIONS_PER_DECISION
    /\ \A i \in 1..Len(state.nextActions) : state.nextActions[i].tool \in ALLOWED_TOOLS

(***************************************************************************)
(* choosePath and the path the model asked for                             *)
(***************************************************************************)
\* the path dispatchTool passes to choosePath: args.path ?? default of the tool
DesiredPath == IF state.nextArgs.path.form = "null"
               THEN DefaultPath(state.nextTool) ELSE state.nextArgs.path

\* the desired path passes the four tests the selection rule names
DesiredUsable ==
  /\ state.nextTool \in ALLOWED_TOOLS
  /\ ~(state.lastAction.tool = state.nextTool /\ state.lastAction.path = DesiredPath)
  /\ state.pathHits[DesiredPath] < MAX_HITS_PER_PATH
  /\ ~(isStaticPath(DesiredPath) /\ state.pathHits[DesiredPath] >= 1)

\* C25: a dispatch whose desired path is set, differs from the last action of
\* the same tool, is below the hit cap and is not a static path already hit
\* goes to the desired path and consumes no candidate; this includes a static
\* desired path that has never been hit.
C25_UsableDesiredPathIsUsed ==
  [][(pc = "probe" /\ DesiredUsable) =>
       /\ lastDispatch'.path = DesiredPath
       /\ state'.candidates = state.candidates]_vars

\* the desired path fails one of the tests of the selection rule
DesiredBlocked(st, toolName, desiredPath) ==
  \/ st.lastAction.tool = toolName /\ st.lastAction.path = desiredPath
  \/ st.pathHits[desiredPath] >= MAX_HITS_PER_PATH
  \/ isStaticPath(desiredPath) /\ st.pathHits[desiredPath] >= 1

\* a queue entry that may be selected: unvisited, below the hit cap, not a
\* static path already hit
Eligible(st, path) ==
  /\ \A i \in 1..Len(st.visitedPaths) : st.visitedPaths[i] # path
  /\ st.pathHits[path] < MAX_HITS_PER_PATH
  /\ ~(isStaticPath(path) /\ st.pathHits[path] >= 1)

FirstOf(S) == CHOOSE i \in S : \A k \in S : i <= k

\* C26: when the desired path is not usable, choosePath returns the first queue
\* entry that is API/auth/sensitive and eligible, also when eligible entries of
\* other kinds precede it, and removes that entry from the queue; when there is
\* none it returns the first eligible entry in queue order and the queue
\* continues after that entry; it returns null only when no entry is eligible.
C26_FallbackPrefersApiThenFifo ==
  [][(pc = "choose" /\ DesiredBlocked(state, returned'.tool, returned'.desired)) =>
       LET c == state.candidates
           api == {i \in 1..Len(c) : Eligible(state, c[i]) /\ isApiOrAuthPath(c[i])}
           any == {i \in 1..Len(c) : Eligible(state, c[i])}
       IN IF api # {}
          THEN /\ returned'.value = c[FirstOf(api)]
               /\ state'.candidates = RemoveAt(c, FirstOf(api))
          ELSE IF any # {}
          THEN /\ returned'.value = c[FirstOf(any)]
               /\ state'.candidates = SubSeq(c, FirstOf(any) + 1, Len(c))
          ELSE returned'.value = NullPath]_vars

\* the desired '/' repeats the last action; the API entry is taken from behind
\* an eligible entry of another kind, which stays in the queue
C26_Witness ==
  /\ pc = "chosen"
  /\ returned.tool = "http_get"
  /\ returned.desired = Root
  /\ returned.queue = <<About, ApiA, Ftp>>
  /\ returned.value = ApiA
  /\ state.candidates = <<About, Ftp>>
  /\ state.visitedPaths = <<Root>>

\* C27: when the Cortex step forced a diversity tool and routed to Probe, the
\* next Probe dispatches the forced tool and issues its request to the path
\* '/', whatever pathHits['/'], lastAction and the candidates queue are.
C27_ForcedToolProbesRoot ==
  [][(pc = "probe" /\ lastForced # Null) =>
       /\ state.nextTool = lastForced
       /\ lastDispatch'.tool = lastForced
       /\ lastDispatch'.result = "sent"
       /\ lastDispatch'.path = Root]_vars

\* C28: a dispatch rejected by the budget gate (metrics.requests >=
\* MAX_REQ_PER_RUN at the gate) issues no request, returns false, records one
\* error and leaves metrics.requests, metrics.perTool, observations,
\* visitedPaths, pathHits, pathStats and lastAction as they were.
C28_GatedDispatchChangesOnlyErrors ==
  (/\ pc = "dispatched"
   /\ lastDispatch.result = "gated"
   /\ returned.before.metrics.requests >= MAX_REQ_PER_RUN) =>
    /\ requestsSent = {}
    /\ returned.value = FALSE
    /\ Len(state.metrics.errors) = Len(returned.before.metrics.errors) + 1
    /\ state.metrics.requests = returned.before.metrics.requests
    /\ state.metrics.perTool = returned.before.metrics.perTool
    /\ state.observations = returned.before.observations
    /\ state.pathStats = returned.before.pathStats
    /\ state.lastAction = returned.before.lastAction
    /\ state.visitedPaths = returned.before.visitedPaths
    /\ state.pathHits = returned.before.pathHits

\* the call of dispatchTool that has been made finds no path to request
NoPathSelectable ==
  LET desired == IF returned.args.path.form = "null"
                 THEN DefaultPath(returned.tool) ELSE returned.args.path
  IN choosePath(returned.before, returned.tool, desired).path = NullPath

\* C29: a dispatch that is skipped, because no valid path can be selected or
\* because the tool is not one of the six allowed tools, issues no request,
\* returns false, and leaves metrics.requests, metrics.perTool, observations,
\* visitedPaths, pathHits, pathStats, lastAction and toolUsage unchanged, also
\* once the Probe node has accounted for the skip.
C29_SkippedDispatchIssuesNothing ==
  (/\ pc # "dispatch"
   /\ returned.tool \notin ALLOWED_TOOLS \/ NoPathSelectable) =>
    /\ pc \in {"dispatched", "probed"}
    /\ requestsSent = {}
    /\ inflight = <<>>
    /\ returned.value = FALSE
    /\ state.metrics.requests = returned.before.metrics.requests
    /\ state.metrics.perTool = returned.before.metrics.perTool
    /\ state.observations = returned.before.observations
    /\ state.visitedPaths = returned.before.visitedPaths
    /\ state.pathHits = returned.before.pathHits
    /\ state.pathStats = returned.before.pathStats
    /\ state.lastAction = returned.before.lastAction
    /\ state.toolUsage = returned.before.toolUsage

\* http_get of '/' repeats the last action and both queued paths are visited:
\* the queue is emptied, nothing is requested and the hop counts as skipped
C29_Witness ==
  /\ pc = "probed"
  /\ returned.tool = "http_get"
  /\ returned.args.path = Root
  /\ returned.before.candidates = <<About, ApiA>>
  /\ returned.before.metrics.requests = 0
  /\ state.candidates = <<>>
  /\ lastDispatch.result = "skipped"
  /\ state.skippedHops = 1
  /\ state.hops = 1

\* a measure_timing call of dispatchTool that got past the budget gate
TimingDispatched ==
  /\ pc # "dispatch"
  /\ returned.tool = "measure_timing"
  /\ lastDispatch.result \notin {"skipped", "gated"}

TimingRequest(phase) ==
  [tool |-> "measure_timing", url |-> buildUrl(lastDispatch.path), phase |-> phase]

\* C30: a measure_timing dispatch adds exactly 2 to metrics.requests and to its
\* perTool count; it issues the control request first and the test request only
\* once the control response has arrived, never when the control request
\* failed; on success it appends exactly one observation and increments
\* pathHits of its path by exactly 1.
C30_MeasureTimingTwoSequentialRequests ==
  /\ [](TimingDispatched =>
          /\ state.metrics.requests = returned.before.metrics.requests + 2
          /\ state.metrics.perTool["measureTiming"]
               = returned.before.metrics.perTool["measureTiming"] + 2
          /\ TimingRequest("control") \in requestsSent
          /\ requestsSent \subseteq {TimingRequest("control"), TimingRequest("test")}
          /\ (pc = "await" /\ inflight[1].phase = "control") =>
               requestsSent = {TimingRequest("control")}
          /\ (pc # "await" /\ returned.value) =>
               /\ requestsSent = {TimingRequest("control"), TimingRequest("test")}
               /\ Len(state.observations) = Len(returned.before.observations) + 1
               /\ state.pathHits = [returned.before.pathHits EXCEPT ![lastDispatch.path] = @ + 1])
  /\ [][(TimingDispatched /\ pc = "await" /\ inflight[1].phase = "control") =>
          IF lastDispatch'.result = "pending"
          THEN /\ pc' = "await"
               /\ requestsSent' = requestsSent \cup {TimingRequest("test")}
               /\ state'.observations = state.observations
          ELSE /\ lastDispatch'.result = "transport_error"
               /\ pc' = "dispatched"
               /\ requestsSent' = requestsSent
               /\ returned'.value = FALSE
               /\ state'.observations = state.observations]_vars

\* both requests of a timing probe of '/api/a' were answered
C30_Witness ==
  /\ pc = "dispatched"
  /\ returned.tool = "measure_timing"
  /\ returned.value
  /\ lastDispatch.path = ApiA
  /\ returned.before.metrics.requests = MAX_REQ_PER_RUN - 1
  /\ state.metrics.requests = MAX_REQ_PER_RUN + 1
  /\ Cardinality(requestsSent) = 2
  /\ Len(state.observations) = 1
  /\ state.pathHits[ApiA] = 1

\* the entries of the queue that the step has added
AddedCandidates ==
  {state'.candidates[i] : i \in 1..Len(state'.candidates)}
    \ {state.candidates[i] : i \in 1..Len(state.candidates)}

\* C31: only a successful http_get adds entries to candidates; candidates
\* never holds an entry twice nor a path classified as static, and an entry
\* is in neither candidates nor visitedPaths when it is added.
C31_CandidatesOnlyFromHttpGet ==
  /\ [](/\ \A i, j \in 1..Len(state.candidates) :
             i # j => state.candidates[i] # state.candidates[j]
        /\ \A i \in 1..Len(state.candidates) : ~isStaticPath(state.candidates[i]))
  /\ [][AddedCandidates # {} =>
          /\ pc = "await"
          /\ inflight[1].tool = "http_get"
          /\ lastDispatch'.result = "ok"
          /\ Len(state'.observations) = Len(state.observations) + 1
          /\ \A p \in AddedCandidates :
               \A i \in 1..Len(state.visitedPaths) : state.visitedPaths[i] # p]_vars

\* the second page with links is fetched while '/about' is still queued: it is
\* not queued again, '/api/a' (visited) and '/styles.css' (static) are left out
C31_Witness ==
  /\ state.candidates = <<About>>
  /\ lastDispatch = [result |-> "ok", tool |-> "http_get", path |-> Root]
  /\ InSeq(ApiA, state.visitedPaths)
  /\ Len(state.observations) = 2
  /\ state.pathStats[ApiA].lastStatus = 200
  /\ state.pathHits[Root] = 2

\* args.body ?? {} of the call of dispatchTool that has been made
ArgsBody == IF "body" \in DOMAIN returned.args THEN returned.args.body ELSE NoBody

\* C32: the body an http_post sends differs from args.body (or {}) only if the
\* path requested contains 'Feedbacks' and an earlier captcha_fetch stored a
\* captchaId; every field present in args.body is sent with its own value; and
\* state.captcha changes only when a captcha_fetch is answered.
C32_CaptchaMergedOnlyForFeedbacks ==
  /\ []((pc = "await" /\ inflight[1].tool = "http_post") =>
          /\ inflight[1].body # ArgsBody =>
               /\ IncludesFeedbacks(inflight[1].path)
               /\ returned.before.captcha.fetched
               /\ returned.before.captcha.captchaId # Null
          /\ \A f \in DOMAIN ArgsBody :
               f \in DOMAIN inflight[1].body /\ inflight[1].body[f] = ArgsBody[f])
  /\ [][state'.captcha # state.captcha =>
          /\ pc = "await"
          /\ inflight[1].tool = "captcha_fetch"
          /\ lastDispatch'.result = "ok"]_vars

\* C33: when a validated LLM response has no next_actions and carries a legacy
\* next_tool, the Cortex result is a batch of exactly one action with that tool
\* and the response's next_args ({path: '/'} when absent).
C33_LegacyNextToolBecomesOneAction ==
  (/\ pc = "router"
   /\ oracle = BatchRepliesLegacy
   /\ llmCalls # <<>>
   /\ llmCalls[Len(llmCalls)] = "ok"
   /\ lastForced = Null) =>
    \E raw \in oracle : state.nextActions = <<Act(raw.next_tool, Root)>>

\* C34: visitedPaths has no duplicate entry, and a path is in visitedPaths
\* exactly when pathHits of that path is >= 1, also after dispatches that fail
\* at the budget gate or with a transport error.
C34_VisitedIffHit ==
  /\ \A i, j \in 1..Len(state.visitedPaths) :
       (state.visitedPaths[i] = state.visitedPaths[j]) => (i = j)
  /\ \A p \in DOMAIN state.pathHits :
       InSeq(p, state.visitedPaths) <=> (state.pathHits[p] >= 1)

\* a dispatch rejected at the budget gate (an error entry of the catch block with
\* no entry of recordError before it) whose path is visited and counted
GatedError(i) ==
  /\ state.metrics.errors[i].by = "dispatchTool"
  /\ (i = 1 \/ state.metrics.errors[i - 1].by # "recordError")
  /\ state.metrics.errors[i].path.form # "null"

C34_Witness ==
  /\ state.metrics.requests >= MAX_REQ_PER_RUN
  /\ \E i \in 1..Len(state.metrics.errors) :
       /\ GatedError(i)
       /\ InSeq(state.metrics.errors[i].path, state.visitedPaths)
       /\ state.pathHits[state.metrics.errors[i].path] >= 1
  /\ \E i \in 1..Len(state.metrics.errors) : state.metrics.errors[i].by = "recordError"
  /\ \E p \in DOMAIN state.pathHits : state.pathHits[p] = 2

\* C35: every dispatch that returns false after a request was attempted or
\* gated (transport error or budget rejection) appends exactly one entry to
\* metrics.errors.
C35_FailedDispatchAppendsOneError ==
  (/\ pc = "dispatched"
   /\ returned.fn = "dispatchTool"
   /\ lastDispatch.result \in {"gated", "transport_error"}) =>
    /\ returned.value = FALSE
    /\ Len(state.metrics.errors) = Len(returned.before.metrics.errors) + 1

\* C36: every entry that choosePath removes from candidates without returning
\* it is already in visitedPaths, and whenever choosePath returns null the
\* candidates queue is empty afterwards.
C36_NoUnexploredCandidateLost ==
  [][pc = "choose" =>
       /\ \A i \in 1..Len(state.candidates) :
            (/\ ~InSeq(state.candidates[i], state'.candidates)
             /\ state.candidates[i] # returned'.value) =>
              InSeq(state.candidates[i], state.visitedPaths)
       /\ (returned'.value = NullPath) => (state'.candidates = <<>>)
       /\ state'.visitedPaths = state.visitedPaths]_vars

\* two visited entries are dropped on the way to the first unvisited one
C36_Witness ==
  /\ pc = "chosen"
  /\ returned.tool = "http_get"
  /\ returned.desired = Root
  /\ returned.queue = <<ApiA, Login, About>>
  /\ returned.value = About
  /\ state.candidates = <<>>
  /\ InSeq(ApiA, state.visitedPaths)
  /\ InSeq(Login, state.visitedPaths)
  /\ ~InSeq(About, state.visitedPaths)

\* C37: after every Cortex call, llmMeta.attempts equals the number of LLM
\* invocations performed in that call: 0 for the stub, 1 when the first
\* response was valid, 2 when a retry was needed or both attempts failed.
C37_AttemptsCountsInvocations ==
  (pc = "router") => (state.llmMeta.attempts = Len(llmCalls))

\* the run state as createInitialState builds it: no maxHitsPerPath field
OnRunState == "maxHitsPerPath" \notin DOMAIN state

\* what the hit count of the path takes off its score
HitTerm(path, st) ==
  scorePath(path, [st EXCEPT !.pathHits[path] = 0]).score - scorePath(path, st).score

\* C38: for every allowed value of MAX_HITS_PER_PATH, scorePath on the run
\* state applies the -3 penalty to a path exactly when canHit is false for it
\* (pathHits[path] >= MAX_HITS_PER_PATH) and takes off the hit count otherwise,
\* and the score never increases when only the hit count of the path increases.
C38_ScoreCapEqualsSelectionCap ==
  (pc = "scored" /\ returned.path # NullPath /\ OnRunState) =>
    /\ HitTerm(returned.path, state) =
         IF returned.canHit THEN state.pathHits[returned.path] ELSE 3
    /\ scorePath(returned.path,
                 [state EXCEPT !.pathHits[returned.path] = @ + 1]).score
         <= returned.value.score

\* C39: no request is issued for a (tool, path) pair equal to state.lastAction
\* at the moment the path is selected, whether the path is the one Cortex named
\* or one taken from candidates; so no two consecutive successful dispatches
\* have both the same tool and the same path.
C39_NeverRepeatsLastAction ==
  /\ [][(pc = "probe" /\ lastDispatch'.result = "sent") =>
          [tool |-> lastDispatch'.tool, path |-> lastDispatch'.path] # state.lastAction]_vars
  /\ [][(pc = "await" /\ lastDispatch'.result = "ok") =>
          /\ state'.lastAction = [tool |-> lastDispatch'.tool, path |-> lastDispatch'.path]
          /\ state'.lastAction # state.lastAction]_vars

\* Cortex names the pair of the last action; the request goes to a candidate
C39_Witness ==
  /\ pc = "await"
  /\ lastDispatch.result = "sent"
  /\ state.lastAction = [tool |-> state.nextTool, path |-> DesiredPath]
  /\ lastDispatch.tool = state.nextTool
  /\ lastDispatch.path # DesiredPath
  /\ state.hops >= 1

\* the dispatches of the run that returned success for a tool: each of them, and
\* nothing else, appends one observation carrying the tool's name
SuccessfulDispatches(toolName) ==
  Cardinality({i \in 1..Len(state.observations) :
                 state.observations[i].tool = MetricName(toolName)})

\* C40: toolUsage[t] equals the number of dispatches requested for tool t that
\* returned success (a skipped or failed dispatch, including a forced diversity
\* tool that was skipped, never counts), pathStats[p].hits <= pathHits[p] for
\* every path p, and pathStats[p].lastObservationId names an existing
\* observation.
C40_ToolUsageCountsSuccesses ==
  /\ [](/\ \A t \in ALLOWED_TOOLS : state.toolUsage[t] = SuccessfulDispatches(t)
        /\ \A p \in DOMAIN state.pathStats :
             /\ state.pathStats[p].hits <= state.pathHits[p]
             /\ (state.pathStats[p].hits >= 1) =>
                  \E i \in 1..Len(state.observations) :
                    state.observations[i].id = state.pathStats[p].lastObservationId)
  /\ [][\A t \in ALLOWED_TOOLS :
          state'.toolUsage[t] =
            IF /\ pc \in {"probe", "await"}
               /\ lastDispatch'.result = "ok"
               /\ t = state.nextTool
            THEN state.toolUsage[t] + 1
            ELSE state.toolUsage[t]]_vars

\* a forced diversity tool was skipped and is not counted; a path was requested
\* more often than it answered
C40_Witness ==
  /\ lastForced # Null
  /\ lastDispatch.result = "skipped"
  /\ lastDispatch.tool = lastForced
  /\ state.toolUsage[lastForced] = 0
  /\ state.toolUsage["http_get"] >= 1
  /\ \E p \in DOMAIN state.pathStats :
       state.pathStats[p].hits >= 1 /\ state.pathStats[p].hits < state.pathHits[p]

====
